---- MODULE Spec2Model ----
(***************************************************************************)
(* Burn-in export jobs of captionist-be.                                    *)
(*                                                                         *)
(* The repository holds two builds of ExportService:                       *)
(*   "ass"      src/src/services/exportService.ts (subtitle-document       *)
(*              renderer, progress parsed from the engine's stderr)        *)
(*   "drawtext" src/unnamed/part_005 (drawtext filters, progress taken     *)
(*              from the engine's 'progress' event)                        *)
(* and two builds of the export router: src/src/api/routes/health.ts       *)
(* (lines 23-289) and the earlier src/unnamed/part_002.                    *)
(*                                                                         *)
(* A state of the model is a state of the Node event loop between two      *)
(* callbacks: an action is one callback together with the promise          *)
(* continuations (microtasks) it triggers, which run before any other      *)
(* callback can.                                                           *)
(***************************************************************************)
EXTENDS Integers, Sequences, FiniteSets, TLC

\* ------------------------------------------------------------------ bounds
MaxJobs == 2
MaxCaptions == 1
MaxMarker == 2
MaxText == 4
MaxSegments == 2
MaxClock == 2
MaxBurst == 2

\* ------------------------------------------------------- program constants
StartProgress == 1
EngineStartProgress == 2
MaxRunningProgress == 99
DoneProgress == 100
LegacyInitProgress == 10
LegacyResolvedProgress == 20
LegacyStartProgress == 30
LegacyMaxProgress == 95
LegacyFallbackDuration == 30
MinFontSize == 8
MaxFontSize == 200
DefaultFontSize == 20
One == 100
MaxBorderWidth == 20
MinScale == 10
MaxScale == 500

\* ------------------------------------------------------------------ values
JobIds == 1..MaxJobs
Impls == {"ass", "drawtext"}
Undefined == "undefined"
NoPath == 0

\* ExportJob record; an id without a record maps to NoJob
NoJob == [status |-> "absent", progress |-> 0, outputPath |-> NoPath,
          publicUrl |-> NoPath, error |-> Undefined]

NewJob == [status |-> "pending", progress |-> 0, outputPath |-> NoPath,
           publicUrl |-> NoPath, error |-> Undefined]

Terminal(job) == job.status \in {"completed", "failed"}

\* path.join(exportsDir, `${jobId}.${format}`): one path per job id
OutputPathOf(j) == j

\* `/export/exports/${path.basename(outputPath)}`
PublicUrlOf(j) == j

VARIABLES
  impl,          \* which ExportService build the router imports
  jobs,          \* ExportService.jobs : jobId -> ExportJob
  pc,            \* position of each job's pipeline
  duration,      \* probed duration held by the job's stderr listener (ass)
  compileThrows, \* whether compiling the captions a pipeline holds raises
  launched,      \* number of pipeline instances started per job id
  returned,      \* job ids returned by startBurnIn, in order
  thrown,        \* the error raised inside each job's pipeline, if any
  lastResponse,  \* the HTTP response being written, NoResponse once it is sent
  now,           \* Date.now(), in hours
  createdAt,     \* the createdAt field of each job record, in hours
  requestCounts, \* the rate limiters' map clientId -> {count, resetTime}
  call,          \* a call of one of the library functions: its name and arguments
  result         \* what that call returned, once it has returned

vars == <<impl, jobs, pc, duration, compileThrows, launched, returned,
          thrown, lastResponse, now, createdAt, requestCounts, call, result>>

\* the variables of the library calls, which the export service leaves alone
lib == <<call, result>>

\* the clock and the creation times, which only a new job and a tick change
clock == <<now, createdAt>>

\* the variables of the export service, which a library call leaves alone
service == <<impl, jobs, pc, duration, compileThrows, launched, returned,
             thrown, lastResponse, now, createdAt, requestCounts>>

\* ------------------------------------------------------------ rate limits
\* const maxRequests = 1000
ExportMaxRequests == 1000

\* const windowMs = 5 * 60 * 1000, the unit of the limiter's clock
ExportWindow == 1

\* req.ip of the requests; Express leaves it undefined without a peer address
Ips == {"a", "b", Undefined}

\* the keys of requestCounts
ClientIds == {"a", "b", "unknown"}

\* requestCounts.get(clientId) of a client never seen
NoClientData == [count |-> 0, resetTime |-> 0]

\* --------------------------------------------------------------- requests
\* String.prototype.trim on a character sequence
RECURSIVE TrimLeft(_)
TrimLeft(s) == IF s = <<>> THEN s
               ELSE IF Head(s) = " " THEN TrimLeft(Tail(s)) ELSE s

RECURSIVE TrimRight(_)
TrimRight(s) == IF s = <<>> THEN s
                ELSE IF s[Len(s)] = " " THEN TrimRight(SubSeq(s, 1, Len(s) - 1))
                ELSE s

Trim(s) == TrimRight(TrimLeft(s))

\* caption objects found in request bodies
Captions ==
  { [textType |-> "string", text |-> <<"h">>, numericTimes |-> TRUE,
     startTime |-> 0, endTime |-> 1],
    [textType |-> "string", text |-> <<" ">>, numericTimes |-> TRUE,
     startTime |-> 0, endTime |-> 1],
    [textType |-> "string", text |-> <<>>, numericTimes |-> TRUE,
     startTime |-> 0, endTime |-> 1],
    [textType |-> "number", text |-> <<>>, numericTimes |-> TRUE,
     startTime |-> 0, endTime |-> 1],
    [textType |-> "string", text |-> <<"h">>, numericTimes |-> TRUE,
     startTime |-> 1, endTime |-> 0],
    [textType |-> "string", text |-> <<"h">>, numericTimes |-> FALSE,
     startTime |-> 0, endTime |-> 1] }

CaptionLists == UNION { [1..n -> Captions] : n \in 0..MaxCaptions }

\* legacy flat style bodies: fontSize 0 stands for an unset field
FlatStyles == { [present |-> FALSE, fontSize |-> 0],
                [present |-> TRUE, fontSize |-> 0],
                [present |-> TRUE, fontSize |-> 300] }

\* the style and preset fields of a request body
Stylings ==
  (FlatStyles \X {""})
    \cup {<<[present |-> TRUE, fontSize |-> 300], "classic">>,
          <<[present |-> FALSE, fontSize |-> 0], "constructor">>}

Uploads == {"v1"}

\* request bodies; a body whose captions field is not an array carries no list
Requests ==
  { r \in [ videoId : {"", "v1", "v404"},
            isArray : BOOLEAN,
            captions : CaptionLists,
            style : FlatStyles,
            preset : {"", "classic", "constructor"} ] :
      /\ ~r.isArray => r.captions = <<>>
      /\ <<r.style, r.preset>> \in Stylings }

\* JavaScript truthiness of caption.text
TextTruthy(c) == \/ c.textType = "number"
                 \/ c.textType = "string" /\ c.text # <<>>

\* durations the media prober can report, and the drawtext fallback
ProbedDurations == {0, 2}
AllDurations == ProbedDurations \cup {LegacyFallbackDuration}

\* ------------------------------------------------------------ style model
\* A CaptionStyle is a function from the names of its groups to the groups,
\* a group a function from its field names to their values; an absent group
\* or field is a name outside the DOMAIN. Strings the code inspects character
\* by character (colours) are sequences of characters. Fractional fields
\* (x, y, opacity, scale, animation duration and delay) are in hundredths.
Groups == {"position", "typography", "background", "border", "shadow",
           "animation", "effects"}

White == <<"#", "F", "F", "F", "F", "F", "F">>
Black == <<"#", "0", "0", "0", "0", "0", "0">>
Anthracite == <<"#", "1", "A", "1", "A", "1", "A">>

NoPadding == [top |-> 0, right |-> 0, bottom |-> 0, left |-> 0]

CAPTION_STYLE_PRESETS ==
  [reel |->
     [position |-> [type |-> "bottom", margin |-> 20],
      typography |-> [fontFamily |-> "Arial", fontSize |-> 24,
                      fontWeight |-> "bold", fontColor |-> White,
                      textAlign |-> "center"],
      background |-> [enabled |-> TRUE, color |-> Black, opacity |-> 80,
                      borderRadius |-> 8,
                      padding |-> [top |-> 12, right |-> 16, bottom |-> 12,
                                   left |-> 16]],
      border |-> [enabled |-> FALSE, color |-> Black, width |-> 0,
                  style |-> "solid"],
      shadow |-> [enabled |-> TRUE, color |-> Black, blur |-> 4,
                  offsetX |-> 0, offsetY |-> 2],
      animation |-> [type |-> "fade", duration |-> 30, delay |-> 0,
                     easing |-> "ease-out"],
      effects |-> [opacity |-> 100, rotation |-> 0, scale |-> 100, blur |-> 0]],
   classic |->
     [position |-> [type |-> "bottom", margin |-> 30],
      typography |-> [fontFamily |-> "Times New Roman", fontSize |-> 20,
                      fontWeight |-> "normal", fontColor |-> White,
                      textAlign |-> "center"],
      background |-> [enabled |-> TRUE, color |-> Black, opacity |-> 70,
                      borderRadius |-> 0,
                      padding |-> [top |-> 8, right |-> 12, bottom |-> 8,
                                   left |-> 12]],
      border |-> [enabled |-> FALSE, color |-> Black, width |-> 0,
                  style |-> "solid"],
      shadow |-> [enabled |-> FALSE, color |-> Black, blur |-> 0,
                  offsetX |-> 0, offsetY |-> 0],
      animation |-> [type |-> "none", duration |-> 0, delay |-> 0,
                     easing |-> "linear"],
      effects |-> [opacity |-> 100, rotation |-> 0, scale |-> 100, blur |-> 0]],
   modern |->
     [position |-> [type |-> "bottom", margin |-> 25],
      typography |-> [fontFamily |-> "Helvetica", fontSize |-> 22,
                      fontWeight |-> "normal", fontColor |-> White,
                      textAlign |-> "center"],
      background |-> [enabled |-> TRUE, color |-> Anthracite, opacity |-> 90,
                      borderRadius |-> 12,
                      padding |-> [top |-> 10, right |-> 14, bottom |-> 10,
                                   left |-> 14]],
      border |-> [enabled |-> TRUE, color |-> White, width |-> 1,
                  style |-> "solid"],
      shadow |-> [enabled |-> TRUE, color |-> Black, blur |-> 6,
                  offsetX |-> 0, offsetY |-> 3],
      animation |-> [type |-> "slide", duration |-> 40, delay |-> 0,
                     easing |-> "ease-out"],
      effects |-> [opacity |-> 100, rotation |-> 0, scale |-> 100, blur |-> 0]],
   minimal |->
     [position |-> [type |-> "bottom", margin |-> 15],
      typography |-> [fontFamily |-> "Arial", fontSize |-> 18,
                      fontWeight |-> "light", fontColor |-> White,
                      textAlign |-> "center"],
      background |-> [enabled |-> FALSE, color |-> Black, opacity |-> 0,
                      borderRadius |-> 0, padding |-> NoPadding],
      border |-> [enabled |-> FALSE, color |-> Black, width |-> 0,
                  style |-> "solid"],
      shadow |-> [enabled |-> TRUE, color |-> Black, blur |-> 3,
                  offsetX |-> 0, offsetY |-> 1],
      animation |-> [type |-> "fade", duration |-> 20, delay |-> 0,
                     easing |-> "ease-in-out"],
      effects |-> [opacity |-> 95, rotation |-> 0, scale |-> 100, blur |-> 0]]]

\* an object without own properties
EmptyObject == [f \in {} |-> 0]

\* a style whose groups are all empty
EmptyGroups == [g \in Groups |-> EmptyObject]

\* names every object literal inherits from Object.prototype
PrototypeKeys == {"constructor", "toString"}

\* CAPTION_STYLE_PRESETS[presetName] || CAPTION_STYLE_PRESETS.classic: an
\* inherited member is a function, truthy and without groups
PresetLookup(presetName) ==
  IF presetName \in DOMAIN CAPTION_STYLE_PRESETS
    THEN CAPTION_STYLE_PRESETS[presetName]
  ELSE IF presetName \in PrototypeKeys THEN EmptyObject
  ELSE CAPTION_STYLE_PRESETS.classic

\* { ...a, ...b }
Spread(a, b) ==
  [f \in DOMAIN a \cup DOMAIN b |-> IF f \in DOMAIN b THEN b[f] ELSE a[f]]

\* style.group when spread: nothing when the group is absent
GroupOf(style, g) == IF g \in DOMAIN style THEN style[g] ELSE EmptyObject

\* the optional overrides argument
NoOverrides == [given |-> FALSE, style |-> EmptyObject]
Overriding(style) == [given |-> TRUE, style |-> style]

createStyleFromPreset(presetName, overrides) ==
  LET baseStyle == PresetLookup(presetName)
      top == Spread(baseStyle, overrides.style)
  IN IF ~overrides.given THEN baseStyle
     ELSE [g \in DOMAIN top \cup Groups |->
             IF g \in Groups
               THEN Spread(GroupOf(baseStyle, g), GroupOf(overrides.style, g))
               ELSE top[g]]

HexDigits == {"0", "1", "2", "3", "4", "5", "6", "7", "8", "9",
              "A", "B", "C", "D", "E", "F", "a", "b", "c", "d", "e", "f"}
Digits == {"0", "1", "2", "3", "4", "5", "6", "7", "8", "9"}
Whitespace == {" "}

\* /^#([A-Fa-f0-9]{6}|[A-Fa-f0-9]{3})$/
HexPattern(color) ==
  /\ Len(color) \in {4, 7}
  /\ color[1] = "#"
  /\ \A i \in 2..Len(color) : color[i] \in HexDigits

\* the first position of color at or after i whose character is outside set
RECURSIVE Skip(_, _, _)
Skip(color, i, set) ==
  IF i <= Len(color) /\ color[i] \in set THEN Skip(color, i + 1, set) ELSE i

\* \s*\d+\s* from position i: the position after it, 0 when it does not match
NumberAt(color, i) ==
  LET a == Skip(color, i, Whitespace)
      b == Skip(color, a, Digits)
  IN IF i = 0 \/ b = a THEN 0 ELSE Skip(color, b, Whitespace)

\* "," at position i: the position after it, 0 when it does not match
CommaAt(color, i) ==
  IF i # 0 /\ i <= Len(color) /\ color[i] = "," THEN i + 1 ELSE 0

\* /^rgba?\(\s*\d+\s*,\s*\d+\s*,\s*\d+\s*(,\s*[\d.]+\s*)?\)$/
RgbaPattern(color) ==
  LET open == IF Len(color) >= 5 /\ SubSeq(color, 1, 5) = <<"r", "g", "b", "a", "(">>
                THEN 6
              ELSE IF Len(color) >= 4 /\ SubSeq(color, 1, 4) = <<"r", "g", "b", "(">>
                THEN 5
              ELSE 0
      blue == NumberAt(color, CommaAt(color,
                NumberAt(color, CommaAt(color, NumberAt(color, open)))))
      a == Skip(color, CommaAt(color, blue), Whitespace)
      b == Skip(color, a, Digits \cup {"."})
      alpha == IF CommaAt(color, blue) = 0 \/ b = a THEN 0
               ELSE Skip(color, b, Whitespace)
      close == IF alpha # 0 THEN alpha ELSE blue
  IN close # 0 /\ close = Len(color) /\ color[close] = ")"

isValidHexColor(color) == HexPattern(color) \/ RgbaPattern(color)

\* a comparison with an absent (undefined) field is false
Has(group, field) == field \in DOMAIN group

\* !isValidHexColor(group.field): an absent field is tested as "undefined"
BadColor(group, field) ==
  ~Has(group, field) \/ ~isValidHexColor(group[field])

\* mutant: only the lower limit is tested
Outside_LowerOnly(group, field, low, high) ==
  Has(group, field) /\ group[field] < low

\* group.field < low || group.field > high
Outside(group, field, low, high) ==
  Has(group, field) /\ (group[field] < low \/ group[field] > high)

Enabled(group) == Has(group, "enabled") /\ group.enabled

\* the errors array, as the set of its messages
ValidationErrors(style) ==
  LET position == GroupOf(style, "position")
      typography == GroupOf(style, "typography")
      background == GroupOf(style, "background")
      border == GroupOf(style, "border")
      shadow == GroupOf(style, "shadow")
      effects == GroupOf(style, "effects")
      custom == Has(position, "type") /\ position.type = "custom"
      Err(cond, msg) == IF cond THEN {msg} ELSE {}
      Missing(g, msg) == Err(g \notin DOMAIN style, msg)
  IN Err(custom /\ Outside(position, "x", 0, One),
         "Custom X position must be between 0 and 1")
     \cup Err(custom /\ Outside(position, "y", 0, One),
              "Custom Y position must be between 0 and 1")
     \cup Missing("position", "Position configuration is required")
     \cup Err("typography" \in DOMAIN style
              /\ Outside(typography, "fontSize", MinFontSize, MaxFontSize),
              "Font size must be between 8 and 200")
     \cup Err("typography" \in DOMAIN style /\ BadColor(typography, "fontColor"),
              "Font color must be a valid hex color")
     \cup Missing("typography", "Typography configuration is required")
     \cup Err(Enabled(background) /\ BadColor(background, "color"),
              "Background color must be a valid hex color")
     \cup Err(Enabled(background)
              /\ Outside(background, "opacity", 0, One),
              "Background opacity must be between 0 and 1")
     \cup Missing("background", "Background configuration is required")
     \cup Err(Enabled(border) /\ BadColor(border, "color"),
              "Border color must be a valid hex color")
     \cup Err(Enabled(border) /\ Outside(border, "width", 0, MaxBorderWidth),
              "Border width must be between 0 and 20")
     \cup Missing("border", "Border configuration is required")
     \cup Err(Enabled(shadow) /\ BadColor(shadow, "color"),
              "Shadow color must be a valid hex color")
     \cup Missing("shadow", "Shadow configuration is required")
     \cup Err(Outside(effects, "opacity", 0, One),
              "Effects opacity must be between 0 and 1")
     \cup Err(Outside(effects, "scale", MinScale, MaxScale),
              "Effects scale must be between 0.1 and 5")
     \cup Missing("effects", "Effects configuration is required")

validateCaptionStyle(style) ==
  [isValid |-> ValidationErrors(style) = {}, errors |-> ValidationErrors(style)]

ValidateCaptionStyle(style) == validateCaptionStyle(style).isValid

\* the groups normalizeCaptionStyle fills in
NormalizeDefaults ==
  [position |-> [type |-> "bottom", margin |-> 20],
   typography |-> [fontFamily |-> "Arial", fontSize |-> 20,
                   fontWeight |-> "normal", fontColor |-> White,
                   textAlign |-> "center"],
   background |-> [enabled |-> FALSE, color |-> Black, opacity |-> 80,
                   borderRadius |-> 0, padding |-> NoPadding],
   border |-> [enabled |-> FALSE, color |-> Black, width |-> 0,
               style |-> "solid"],
   shadow |-> [enabled |-> FALSE, color |-> Black, blur |-> 0,
               offsetX |-> 0, offsetY |-> 0],
   animation |-> [type |-> "none", duration |-> 0, delay |-> 0,
                  easing |-> "linear"],
   effects |-> [opacity |-> 100, rotation |-> 0, scale |-> 100, blur |-> 0]]

\* mutant: the groups after position are filled only where position was
\* present
normalizeCaptionStyle_Cascading(style) ==
  [g \in DOMAIN style \cup (IF "position" \in DOMAIN style THEN Groups
                            ELSE {"position"}) |->
     IF g \in DOMAIN style THEN style[g] ELSE NormalizeDefaults[g]]

\* const normalized = { ...style }; if (!normalized.g) normalized.g = default
normalizeCaptionStyle(style) ==
  [g \in DOMAIN style \cup Groups |->
     IF g \in DOMAIN style THEN style[g] ELSE NormalizeDefaults[g]]

\* mapFlatStyleToNested for a flat style that sets fontSize at most: every
\* other field takes the value after its ||
MapFlatStyleToNested(flat) ==
  [position |-> [type |-> "bottom", margin |-> 20],
   typography |-> [fontFamily |-> "Arial",
                   fontSize |-> IF flat.fontSize = 0 THEN DefaultFontSize
                                ELSE flat.fontSize,
                   fontWeight |-> "normal", fontColor |-> White,
                   textAlign |-> "center"],
   background |-> [enabled |-> FALSE, color |-> Black, opacity |-> 80,
                   borderRadius |-> 0, padding |-> NoPadding],
   border |-> [enabled |-> FALSE, color |-> Black, width |-> 0,
               style |-> "solid"],
   shadow |-> [enabled |-> FALSE, color |-> Black, blur |-> 0,
               offsetX |-> 0, offsetY |-> 0],
   animation |-> [type |-> "none", duration |-> 0, delay |-> 0,
                  easing |-> "linear"],
   effects |-> [opacity |-> 100, rotation |-> 0, scale |-> 100, blur |-> 0]]

\* ------------------------------------------------------- router, POST /burn-in
Accepted == "none"

\* the early returns of the handler, in order; Accepted when none is taken
BurnInRejection(req) ==
  IF req.videoId = "" \/ ~req.isArray
    THEN "Missing required fields: videoId and captions"
  ELSE IF Len(req.captions) = 0
    THEN "Captions array cannot be empty"
  ELSE IF \E i \in 1..Len(req.captions) :
            ~TextTruthy(req.captions[i]) \/ ~req.captions[i].numericTimes
    THEN "Each caption must have text, startTime, and endTime"
  ELSE IF req.preset = "" /\ req.style.present
          /\ ~ValidateCaptionStyle(MapFlatStyleToNested(req.style))
    THEN "Invalid style configuration"
  ELSE Accepted

\* the style handed to startBurnIn: finalStyle
FinalStyle(req) ==
  IF req.preset # ""
    THEN createStyleFromPreset(req.preset,
           IF req.style.present THEN Overriding(MapFlatStyleToNested(req.style))
           ELSE NoOverrides)
  ELSE IF req.style.present
    THEN normalizeCaptionStyle(MapFlatStyleToNested(req.style))
  ELSE createStyleFromPreset("classic", NoOverrides)

\* mutant: the style rejection answers 400 but does not return
ReachesStartBurnIn_NoReturn(req) ==
  BurnInRejection(req) \in {Accepted, "Invalid style configuration"}

\* whether control reaches exportService.startBurnIn
ReachesStartBurnIn(req) == BurnInRejection(req) = Accepted

\* earlier router: one check, style passed through as received
EarlierRejection(req) ==
  IF req.videoId = "" \/ ~req.isArray \/ ~req.style.present
    THEN "Invalid payload"
  ELSE Accepted

EarlierReachesStartBurnIn(req) == EarlierRejection(req) = Accepted

\* ------------------------------------------------- ExportService, helpers
\* FileStorage.getVideoPath: a file of the upload directory starts with videoId
GetVideoPathThrows(videoId) == videoId \notin Uploads

ResolveError == "Failed to access video file"
ProbeError == "ffprobe failed"
CompileError == "text.replace is not a function"
WriteError == "write failed"
EngineError == "ffmpeg exited with code 1"
LegacyNotFound == "Video file not found"
LegacyEngineError == "Video processing failed"
LegacyCompileError == "caption.text.trim is not a function"

\* writeAssFile -> escapeAssText(c.text): text.replace on a non-string
AssCompileThrows(captions) ==
  \E i \in 1..Len(captions) : captions[i].textType # "string"

\* burnInCaptions: captions inside the probed duration go to
\* buildComplexFilter, whose filter calls caption.text.trim(), and then to
\* createMultipleSimpleFilters, which reads style.typography.fontSize
DrawtextCompileThrows(captions, nested, d) ==
  LET within == { i \in 1..Len(captions) :
                    /\ captions[i].numericTimes
                    /\ captions[i].startTime < d
                    /\ captions[i].endTime <= d }
      valid == { i \in within :
                   /\ TextTruthy(captions[i])
                   /\ Trim(captions[i].text) # <<>>
                   /\ captions[i].startTime >= 0
                   /\ captions[i].endTime > captions[i].startTime }
  IN \/ \E i \in within : captions[i].textType = "number"
     \/ valid # {} /\ ~nested

CompileThrowsFor(build, captions, nested) ==
  [d \in AllDurations |->
     IF build = "ass" THEN AssCompileThrows(captions)
     ELSE DrawtextCompileThrows(captions, nested, d)]

\* mutant: an id that does not depend on the ids handed out
uuidv4_Fixed(issued) == 1

\* uuidv4(): an id that was not handed out before
uuidv4(issued) == Len(issued) + 1

\* ExportService.update (ass build): merge the patch into the stored record
update(js, j, p) ==
  IF js[j].status = "absent" THEN js
  ELSE [js EXCEPT ![j].progress = p]

\* mutant: the rejection is swallowed
catch_Swallow(js, j, msg) == js

\* the .catch handler of startBurnIn / the catch block of processBurnIn
catch(js, j, msg) ==
  IF js[j].status = "absent" THEN js
  ELSE [js EXCEPT ![j].status = "failed", ![j].error = msg]

\* the tail of process() after runFfmpeg resolves
complete(js, j) ==
  IF js[j].status = "absent" THEN js
  ELSE [js EXCEPT ![j].status = "completed", ![j].progress = DoneProgress,
                  ![j].outputPath = OutputPathOf(j),
                  ![j].publicUrl = PublicUrlOf(j)]

\* the tail of processBurnIn() after burnInCaptions resolves
\* drawtext build: a write to the record object that processBurnIn and
\* burnInCaptions captured when the job started. Once the record is deleted
\* from the map the object is detached, and the write shows in no record
legacyProgress(js, j, p) ==
  IF js[j].status = "absent" THEN js
  ELSE [js EXCEPT ![j].progress = p]

legacyComplete(js, j) ==
  IF js[j].status = "absent" THEN js
  ELSE [js EXCEPT ![j].outputPath = OutputPathOf(j), ![j].progress = DoneProgress,
                  ![j].status = "completed"]

Min(a, b) == IF a < b THEN a ELSE b
Max(a, b) == IF a > b THEN a ELSE b

\* mutant: the percentage is stored without the clamp to 99
Pct_Unclamped(current, d) == (current * 100) \div d

\* stderr handler: Math.min(99, Math.floor((current / duration) * 100))
Pct(current, d) == Min(MaxRunningProgress, (current * 100) \div d)

\* 'progress' handler of the drawtext build:
\* Math.max(30, Math.min(95, Math.round(progress.percent || 0)))
LegacyPct(percent) == Max(LegacyStartProgress, Min(LegacyMaxProgress, percent))

\* lines the engine writes to stderr: with or without a time=H:M:S marker
StderrLines ==
  [hasTime : {TRUE}, h : {0}, m : {0, 1}, s : 0..MaxMarker]
    \cup {[hasTime |-> FALSE, h |-> 0, m |-> 0, s |-> 0]}

\* percent values of the engine's 'progress' event (0 when absent)
Percents == {0, 50, 100}

\* ------------------------------------------------------------- responses
NoResponse ==
  [route |-> "none", status |-> 0, error |-> Undefined, jobId |-> 0,
   bodyStatus |-> Undefined, bodyProgress |-> 0,
   storedStatus |-> Undefined, storedProgress |-> 0, file |-> FALSE]

ErrorResponse(route, code, msg, id) ==
  [NoResponse EXCEPT !.route = route, !.status = code, !.error = msg,
                     !.jobId = id]

\* res.json({jobId, status: 'pending', progress: 0}); the stored* fields
\* keep what the job store holds for jobId when the response is written
CreatedResponse(id, stored) ==
  [NoResponse EXCEPT !.route = "burn-in", !.status = 200, !.jobId = id,
                     !.bodyStatus = "pending", !.bodyProgress = 0,
                     !.storedStatus = stored.status,
                     !.storedProgress = stored.progress]

\* no library call is modelled next to the export service
NoCall == [fn |-> "none"]
NoResult == [returned |-> FALSE]

\* ------------------------------------------------------------------- Init
\* the export service before any request
Idle ==
  /\ jobs = [j \in JobIds |-> NoJob]
  /\ pc = [j \in JobIds |-> "none"]
  /\ duration = [j \in JobIds |-> 0]
  /\ compileThrows = [j \in JobIds |-> [d \in AllDurations |-> FALSE]]
  /\ launched = [j \in JobIds |-> 0]
  /\ returned = <<>>
  /\ thrown = [j \in JobIds |-> Undefined]
  /\ lastResponse = NoResponse
  /\ now = 0
  /\ createdAt = [j \in JobIds |-> 0]
  /\ requestCounts = [c \in ClientIds |-> NoClientData]

Init ==
  /\ impl \in Impls
  /\ Idle
  /\ call = NoCall
  /\ result = NoResult

\* ------------------------------------------------- ExportService.startBurnIn
\* ass build: the record when startBurnIn returns. jobs.set(pending) is
\* followed by process() up to its first await: processing, progress 1
AssAtReturn(js, id) ==
  LET stored == [js EXCEPT ![id] = NewJob]
  IN [stored EXCEPT ![id].status = "processing", ![id].progress = StartProgress]

\* drawtext build: the record when startBurnIn returns. processBurnIn() runs
\* up to its first await: processing/10, getVideoPath and existsSync inside
\* try/catch, then progress 20
DrawtextAtReturn(js, id, videoId) ==
  LET stored == [js EXCEPT ![id] = NewJob]
      entered == [stored EXCEPT ![id].status = "processing",
                                ![id].progress = LegacyInitProgress]
  IN IF GetVideoPathThrows(videoId)
       THEN catch(entered, id, LegacyNotFound)
       ELSE [entered EXCEPT ![id].progress = LegacyResolvedProgress]

AtReturn(js, id, videoId) ==
  IF impl = "ass" THEN AssAtReturn(js, id) ELSE DrawtextAtReturn(js, id, videoId)

\* nothing left to compile: the pipeline holds no captions (any more)
NothingToCompile == [d \in AllDurations |-> FALSE]

\* ass build: after startBurnIn returned and the router answered, the .catch
\* handler runs if getVideoPath threw; otherwise process() awaits the probe
StartBurnInAss(req, id) ==
  IF GetVideoPathThrows(req.videoId)
    THEN /\ jobs' = catch(AssAtReturn(jobs, id), id, ResolveError)
         /\ pc' = [pc EXCEPT ![id] = "settled"]
         /\ thrown' = [thrown EXCEPT ![id] = ResolveError]
         /\ compileThrows' = [compileThrows EXCEPT ![id] = NothingToCompile]
    ELSE /\ jobs' = AssAtReturn(jobs, id)
         /\ pc' = [pc EXCEPT ![id] = "probe"]
         /\ thrown' = [thrown EXCEPT ![id] = Undefined]
         /\ compileThrows' = [compileThrows EXCEPT ![id] =
                                CompileThrowsFor("ass", req.captions, TRUE)]

\* drawtext build: burnInCaptions runs up to getVideoDuration, or straight to
\* command.run() when the request has no captions
StartBurnInDrawtext(req, id, nested) ==
  /\ jobs' = DrawtextAtReturn(jobs, id, req.videoId)
  /\ IF GetVideoPathThrows(req.videoId)
       THEN /\ pc' = [pc EXCEPT ![id] = "settled"]
            /\ thrown' = [thrown EXCEPT ![id] = LegacyNotFound]
            /\ compileThrows' = [compileThrows EXCEPT ![id] = NothingToCompile]
       ELSE /\ pc' = [pc EXCEPT ![id] =
                         IF Len(req.captions) > 0 THEN "probe" ELSE "spawned"]
            /\ thrown' = [thrown EXCEPT ![id] = Undefined]
            /\ compileThrows' = [compileThrows EXCEPT ![id] =
                                   CompileThrowsFor("drawtext", req.captions, nested)]

\* startBurnIn(req); nested tells whether req.style has the nested shape
StartBurnIn(req, nested) ==
  LET id == uuidv4(returned)
  IN /\ IF impl = "ass" THEN StartBurnInAss(req, id)
                        ELSE StartBurnInDrawtext(req, id, nested)
     /\ returned' = Append(returned, id)
     /\ launched' = [launched EXCEPT ![id] = @ + 1]
     /\ duration' = [duration EXCEPT ![id] = 0]
     /\ createdAt' = IF impl = "drawtext"
                        THEN [createdAt EXCEPT ![id] = now] ELSE createdAt
     /\ UNCHANGED impl

\* ------------------------------------------------------------ the routers
\* what the handler answers: the first response written wins
BurnInResponse(rejection, id, videoId) ==
  IF rejection # Accepted THEN ErrorResponse("burn-in", 400, rejection, 0)
  ELSE CreatedResponse(id, AtReturn(jobs, id, videoId)[id])

\* POST /burn-in of src/src/api/routes/health.ts
PostBurnIn(req) ==
  /\ Len(returned) < MaxJobs
  /\ UNCHANGED <<lib, now, requestCounts>>
  /\ lastResponse = NoResponse
  /\ lastResponse' =
       BurnInResponse(BurnInRejection(req), uuidv4(returned), req.videoId)
  /\ IF ReachesStartBurnIn(req)
       THEN StartBurnIn(req, "typography" \in DOMAIN FinalStyle(req))
       ELSE UNCHANGED <<impl, jobs, pc, duration, compileThrows,
                        launched, returned, thrown, createdAt>>

\* POST /burn-in of the earlier router
PostBurnInEarlier(req) ==
  /\ Len(returned) < MaxJobs
  /\ UNCHANGED <<lib, now, requestCounts>>
  /\ lastResponse = NoResponse
  /\ lastResponse' =
       BurnInResponse(EarlierRejection(req), uuidv4(returned), req.videoId)
  /\ IF EarlierReachesStartBurnIn(req)
       THEN StartBurnIn(req, FALSE)
       ELSE UNCHANGED <<impl, jobs, pc, duration, compileThrows,
                        launched, returned, thrown, createdAt>>

\* GET /status/:jobId
GetStatus(id) ==
  /\ lastResponse = NoResponse
  /\ UNCHANGED <<lib, clock, requestCounts>>
  /\ lastResponse' =
       IF jobs[id].status = "absent"
         THEN ErrorResponse("status", 404, "Job not found", id)
         ELSE [NoResponse EXCEPT !.route = "status", !.status = 200,
                                 !.jobId = id]
  /\ UNCHANGED <<impl, jobs, pc, duration, compileThrows, launched,
                 returned, thrown>>

\* mutant: readiness is checked before existence of the job
DownloadResponse_ReadyFirst(job, id, exists) ==
  IF job.status # "completed" \/ job.outputPath = NoPath
    THEN ErrorResponse("download", 409, "Export not ready", id)
  ELSE IF ~exists
    THEN ErrorResponse("download", 404, "File missing", id)
  ELSE [NoResponse EXCEPT !.route = "download", !.status = 200,
                          !.jobId = id, !.file = TRUE]

\* the checks of GET /:jobId/download, in order
DownloadResponse(job, id, exists) ==
  IF job.status = "absent"
    THEN ErrorResponse("download", 404, "Job not found", id)
  ELSE IF job.status # "completed" \/ job.outputPath = NoPath
    THEN ErrorResponse("download", 409, "Export not ready", id)
  ELSE IF ~exists
    THEN ErrorResponse("download", 404, "File missing", id)
  ELSE [NoResponse EXCEPT !.route = "download", !.status = 200,
                          !.jobId = id, !.file = TRUE]

\* GET /:jobId/download; exists is what fs.existsSync(job.outputPath) answers
GetDownload(id, exists) ==
  /\ lastResponse = NoResponse
  /\ UNCHANGED <<lib, clock, requestCounts>>
  /\ lastResponse' = DownloadResponse(jobs[id], id, exists)
  /\ UNCHANGED <<impl, jobs, pc, duration, compileThrows, launched,
                 returned, thrown>>

\* ------------------------------------------------------------ the pipeline
\* ffprobe calls back. ass build: probe() rejects or resolves, and on
\* resolve writeAssFile builds the document (which may throw) and starts the
\* file write. drawtext build: getVideoDuration rejects into the 30 second
\* fallback; the filters are then built inside the async promise executor,
\* where a throw settles nothing, else command.run() is called
ProbeReport(j, ok, d) ==
  /\ lastResponse = NoResponse
  /\ UNCHANGED <<lib, clock, requestCounts>>
  /\ pc[j] = "probe"
  /\ compileThrows' = [compileThrows EXCEPT ![j] = NothingToCompile]
  /\ IF impl = "ass"
       THEN IF ~ok
              THEN /\ jobs' = catch(jobs, j, ProbeError)
                   /\ pc' = [pc EXCEPT ![j] = "settled"]
                   /\ thrown' = [thrown EXCEPT ![j] = ProbeError]
                   /\ UNCHANGED duration
            ELSE IF compileThrows[j][d]
              THEN /\ jobs' = catch(jobs, j, CompileError)
                   /\ pc' = [pc EXCEPT ![j] = "settled"]
                   /\ thrown' = [thrown EXCEPT ![j] = CompileError]
                   /\ UNCHANGED duration
            ELSE /\ pc' = [pc EXCEPT ![j] = "write"]
                 /\ duration' = [duration EXCEPT ![j] = d]
                 /\ UNCHANGED <<jobs, thrown>>
       ELSE LET videoDuration == IF ok THEN d ELSE LegacyFallbackDuration
            IN /\ UNCHANGED <<jobs, duration>>
               /\ IF compileThrows[j][videoDuration]
                    THEN /\ pc' = [pc EXCEPT ![j] = "hung"]
                         /\ thrown' = [thrown EXCEPT ![j] = LegacyCompileError]
                    ELSE /\ pc' = [pc EXCEPT ![j] = "spawned"]
                         /\ UNCHANGED thrown
  /\ UNCHANGED <<impl, launched, returned, lastResponse>>

\* fs.promises.writeFile settles (ass build); on success runFfmpeg builds the
\* command, attaches the listeners and calls command.run()
WriteDone(j, ok) ==
  /\ lastResponse = NoResponse
  /\ UNCHANGED <<lib, clock, requestCounts>>
  /\ impl = "ass"
  /\ pc[j] = "write"
  /\ IF ok
       THEN /\ pc' = [pc EXCEPT ![j] = "spawned"]
            /\ UNCHANGED <<jobs, thrown, duration>>
       ELSE /\ jobs' = catch(jobs, j, WriteError)
            /\ pc' = [pc EXCEPT ![j] = "settled"]
            /\ thrown' = [thrown EXCEPT ![j] = WriteError]
            /\ duration' = [duration EXCEPT ![j] = 0]
  /\ UNCHANGED <<impl, compileThrows, launched, returned, lastResponse>>

\* the engine's 'start' event
EngineStart(j) ==
  /\ lastResponse = NoResponse
  /\ UNCHANGED <<lib, clock, requestCounts>>
  /\ pc[j] = "spawned"
  /\ pc' = [pc EXCEPT ![j] = "running"]
  /\ jobs' = IF impl = "ass" THEN update(jobs, j, EngineStartProgress)
             ELSE legacyProgress(jobs, j, LegacyStartProgress)
  /\ UNCHANGED <<impl, duration, compileThrows, launched, returned, thrown,
                 lastResponse>>

\* mutant: a marker updates the progress whatever the probed duration; a
\* division by a duration of 0 is Infinity, which the minimum caps
EngineStderr_Unguarded(j, line) ==
  /\ lastResponse = NoResponse
  /\ UNCHANGED <<lib, clock, requestCounts>>
  /\ impl = "ass"
  /\ pc[j] \in {"running", "exited"}
  /\ jobs' = IF line.hasTime
               THEN update(jobs, j,
                      IF duration[j] > 0
                        THEN Pct(line.h * 3600 + line.m * 60 + line.s,
                                 duration[j])
                        ELSE MaxRunningProgress)
               ELSE jobs
  /\ UNCHANGED <<impl, pc, duration, compileThrows, launched, returned,
                 thrown, lastResponse>>

\* the engine's 'stderr' event (ass build). The listener stays attached
\* after the terminal event, so a line may arrive when the job is finished
EngineStderr(j, line) ==
  /\ lastResponse = NoResponse
  /\ UNCHANGED <<lib, clock, requestCounts>>
  /\ impl = "ass"
  /\ pc[j] \in {"running", "exited"}
  /\ jobs' = IF line.hasTime /\ duration[j] > 0
               THEN update(jobs, j,
                      Pct(line.h * 3600 + line.m * 60 + line.s, duration[j]))
               ELSE jobs
  /\ UNCHANGED <<impl, pc, duration, compileThrows, launched, returned,
                 thrown, lastResponse>>

\* the engine's 'progress' event (drawtext build), same remark
EngineProgress(j, percent) ==
  /\ lastResponse = NoResponse
  /\ UNCHANGED <<lib, clock, requestCounts>>
  /\ impl = "drawtext"
  /\ pc[j] \in {"running", "exited"}
  /\ jobs' = legacyProgress(jobs, j, LegacyPct(percent))
  /\ UNCHANGED <<impl, pc, duration, compileThrows, launched, returned,
                 thrown, lastResponse>>

\* the engine's 'end' event: the promise resolves and the pipeline's tail runs
EngineEnd(j) ==
  /\ lastResponse = NoResponse
  /\ UNCHANGED <<lib, clock, requestCounts>>
  /\ pc[j] = "running"
  /\ pc' = [pc EXCEPT ![j] = "exited"]
  /\ jobs' = IF impl = "ass" THEN complete(jobs, j)
             ELSE legacyComplete(legacyProgress(jobs, j, LegacyMaxProgress), j)
  /\ UNCHANGED <<impl, duration, compileThrows, launched, returned, thrown,
                 lastResponse>>

\* the engine's 'error' event: the promise rejects and the catch handler
\* runs. An engine that fails before it started has no process left to
\* write to its listeners
EngineFail(j) ==
  /\ lastResponse = NoResponse
  /\ UNCHANGED <<lib, clock, requestCounts>>
  /\ pc[j] \in {"spawned", "running"}
  /\ pc' = [pc EXCEPT ![j] = IF pc[j] = "running" THEN "exited" ELSE "settled"]
  /\ duration' = [duration EXCEPT ![j] = IF pc[j] = "running" THEN @ ELSE 0]
  /\ jobs' = catch(jobs, j, IF impl = "ass" THEN EngineError ELSE LegacyEngineError)
  /\ thrown' = [thrown EXCEPT ![j] =
                  IF impl = "ass" THEN EngineError ELSE LegacyEngineError]
  /\ UNCHANGED <<impl, compileThrows, launched, returned, lastResponse>>

\* the response leaves the server; the next callback runs after that
ResponseSent ==
  /\ lastResponse # NoResponse
  /\ UNCHANGED <<lib, clock, requestCounts>>
  /\ lastResponse' = NoResponse
  /\ UNCHANGED <<impl, jobs, pc, duration, compileThrows, launched, returned,
                 thrown>>

\* ------------------------------------------------------------- the reaper
\* the maxAgeHours the reaper is called with
MaxAges == 0..(MaxClock - 1)

\* the requests the reaper's jobs come from: accepted ones for a stored video,
\* with one caption and no style
ReaperRequests ==
  { r \in Requests : /\ ReachesStartBurnIn(r)
                     /\ r.preset = ""
                     /\ r.videoId \in Uploads
                     /\ Len(r.captions) = 1
                     /\ ~r.style.present }

\* an hour passes
Tick ==
  /\ lastResponse = NoResponse
  /\ now < MaxClock
  /\ now' = now + 1
  /\ UNCHANGED <<lib, requestCounts, impl, jobs, pc, duration, compileThrows, launched,
                 returned, thrown, lastResponse, createdAt>>

\* mutant: a record created exactly maxAgeHours ago is removed as well
CleanupOldJobs_AtCutoff(maxAgeHours) ==
  LET cutoffTime == now - maxAgeHours
  IN /\ lastResponse = NoResponse
     /\ impl = "drawtext"
     /\ jobs' = [j \in JobIds |->
                  IF jobs[j].status # "absent" /\ createdAt[j] <= cutoffTime
                    THEN NoJob ELSE jobs[j]]
     /\ UNCHANGED <<lib, clock, requestCounts, impl, pc, duration, compileThrows, launched,
                    returned, thrown, lastResponse>>

\* cleanupOldJobs(maxAgeHours) of the drawtext build: every record of the map
\* created before the cutoff is deleted; the pipelines are not stopped
CleanupOldJobs(maxAgeHours) ==
  LET cutoffTime == now - maxAgeHours
  IN /\ lastResponse = NoResponse
     /\ impl = "drawtext"
     /\ jobs' = [j \in JobIds |->
                  IF jobs[j].status # "absent" /\ createdAt[j] < cutoffTime
                    THEN NoJob ELSE jobs[j]]
     /\ UNCHANGED <<lib, clock, requestCounts, impl, pc, duration, compileThrows, launched,
                    returned, thrown, lastResponse>>

\* ------------------------------------------------------- the rate limiter
\* const clientId = req.ip || 'unknown'
ClientIdOf(ip) == IF ip = Undefined THEN "unknown" ELSE ip

\* the response of a rejected request
TooManyExports ==
  ErrorResponse("limiter", 429,
                "Too many export requests, please wait before trying again", 0)

\* the limiter's clock ticks once per window length; the counts between
\* MaxBurst and ExportMaxRequests - MaxBurst all take the same branch and
\* are passed over
LimiterTick ==
  /\ lastResponse = NoResponse
  /\ now <= MaxClock
  /\ now' = now + 1
  /\ UNCHANGED <<lib, requestCounts, impl, jobs, pc, duration, compileThrows,
                 launched, returned, thrown, lastResponse, createdAt>>

\* mutant: the window is over as soon as the clock reaches resetTime
ExportRateLimiter_ResetAtEnd(ip) ==
  LET clientId == ClientIdOf(ip)
      clientData == requestCounts[clientId]
  IN /\ lastResponse = NoResponse
     /\ \/ clientData = NoClientData
        \/ now >= clientData.resetTime
        \/ clientData.count < MaxBurst
        \/ clientData.count >= ExportMaxRequests - MaxBurst
     /\ IF clientData = NoClientData \/ now >= clientData.resetTime
          THEN /\ requestCounts' =
                    [requestCounts EXCEPT ![clientId] =
                       [count |-> 1, resetTime |-> now + ExportWindow]]
               /\ UNCHANGED lastResponse
        ELSE IF clientData.count >= ExportMaxRequests
          THEN /\ lastResponse' = TooManyExports
               /\ UNCHANGED requestCounts
        ELSE /\ requestCounts' =
                  [requestCounts EXCEPT ![clientId].count = @ + 1]
             /\ UNCHANGED lastResponse
     /\ UNCHANGED <<lib, clock, impl, jobs, pc, duration, compileThrows,
                    launched, returned, thrown>>

\* exportRateLimiter(req, res, next) for a request whose req.ip is ip; it
\* answers 429 or calls next(), which leaves no response written
ExportRateLimiter(ip) ==
  LET clientId == ClientIdOf(ip)
      clientData == requestCounts[clientId]
  IN /\ lastResponse = NoResponse
     /\ \/ clientData = NoClientData
        \/ now > clientData.resetTime
        \/ clientData.count < MaxBurst
        \/ clientData.count >= ExportMaxRequests - MaxBurst
     /\ IF clientData = NoClientData \/ now > clientData.resetTime
          THEN /\ requestCounts' =
                    [requestCounts EXCEPT ![clientId] =
                       [count |-> 1, resetTime |-> now + ExportWindow]]
               /\ UNCHANGED lastResponse
        ELSE IF clientData.count >= ExportMaxRequests
          THEN /\ lastResponse' = TooManyExports
               /\ UNCHANGED requestCounts
        ELSE /\ requestCounts' =
                  [requestCounts EXCEPT ![clientId].count = @ + 1]
             /\ UNCHANGED lastResponse
     /\ UNCHANGED <<lib, clock, impl, jobs, pc, duration, compileThrows,
                    launched, returned, thrown>>

\* the limiter's map after some traffic: a client has no entry yet, has just
\* opened a window, or is within MaxBurst requests of the maximum
LimiterInit ==
  /\ impl \in Impls
  /\ jobs = [j \in JobIds |-> NoJob]
  /\ pc = [j \in JobIds |-> "none"]
  /\ duration = [j \in JobIds |-> 0]
  /\ compileThrows = [j \in JobIds |-> [d \in AllDurations |-> FALSE]]
  /\ launched = [j \in JobIds |-> 0]
  /\ returned = <<>>
  /\ thrown = [j \in JobIds |-> Undefined]
  /\ lastResponse = NoResponse
  /\ now = 0
  /\ createdAt = [j \in JobIds |-> 0]
  /\ requestCounts \in
       [ClientIds -> {NoClientData}
          \cup [count : (ExportMaxRequests - MaxBurst)..ExportMaxRequests,
                resetTime : 0..ExportWindow]]
  /\ call = NoCall
  /\ result = NoResult

LimiterNext ==
  \/ \E ip \in Ips : ExportRateLimiter(ip)
  \/ ResponseSent
  \/ LimiterTick

LimiterSpec == LimiterInit /\ [][LimiterNext]_vars

Next ==
  \/ \E req \in Requests : PostBurnIn(req)
  \/ \E req \in Requests : PostBurnInEarlier(req)
  \/ \E id \in JobIds : GetStatus(id)
  \/ \E id \in JobIds, exists \in BOOLEAN : GetDownload(id, exists)
  \/ \E j \in JobIds, ok \in BOOLEAN, d \in ProbedDurations : ProbeReport(j, ok, d)
  \/ \E j \in JobIds, ok \in BOOLEAN : WriteDone(j, ok)
  \/ \E j \in JobIds : EngineStart(j)
  \/ \E j \in JobIds, line \in StderrLines : EngineStderr(j, line)
  \/ \E j \in JobIds, percent \in Percents : EngineProgress(j, percent)
  \/ \E j \in JobIds : EngineEnd(j)
  \/ \E j \in JobIds : EngineFail(j)
  \/ ResponseSent

Spec == Init /\ [][Next]_vars

\* the drawtext build with its reaper and a clock
ReaperInit ==
  /\ impl = "drawtext"
  /\ Idle
  /\ call = NoCall
  /\ result = NoResult

ReaperNext ==
  \/ \E req \in ReaperRequests : PostBurnIn(req)
  \/ \E id \in JobIds : GetStatus(id)
  \/ \E j \in JobIds, ok \in BOOLEAN, d \in ProbedDurations : ProbeReport(j, ok, d)
  \/ \E j \in JobIds : EngineStart(j)
  \/ \E j \in JobIds, percent \in Percents : EngineProgress(j, percent)
  \/ \E j \in JobIds : EngineEnd(j)
  \/ \E j \in JobIds : EngineFail(j)
  \/ ResponseSent
  \/ Tick
  \/ \E maxAgeHours \in MaxAges : CleanupOldJobs(maxAgeHours)

ReaperSpec == ReaperInit /\ [][ReaperNext]_vars

\* -------------------------------------------------------------- segmenter
\* CaptionGenerator of src/unnamed/part_004. A transcript is a sequence of
\* characters; a run of non-blank characters may be written as one element
\* ("one"). Durations passed in are whole seconds; the times computed are in
\* ticks, TicksPerSecond to the second, so that 60 / wordPerMinute is exact
TicksPerSecond == 10
DefaultMaxSegmentDuration == 5
DefaultWordPerMinute == 150

\* position of the first blank of text, 0 when it has none
FirstBlank(text) ==
  IF \E i \in 1..Len(text) : text[i] \in Whitespace
    THEN CHOOSE i \in 1..Len(text) :
           /\ text[i] \in Whitespace
           /\ \A k \in 1..(i - 1) : text[k] \notin Whitespace
    ELSE 0

\* text.split(/\s+/)
RECURSIVE SplitWords(_)
SplitWords(text) ==
  LET i == FirstBlank(text)
  IN IF i = 0 THEN <<text>>
     ELSE <<SubSeq(text, 1, i - 1)>>
            \o SplitWords(SubSeq(text, Skip(text, i, Whitespace), Len(text)))

\* words.join(' ')
RECURSIVE Join(_)
Join(words) ==
  IF Len(words) = 0 THEN <<>>
  ELSE IF Len(words) = 1 THEN words[1]
  ELSE words[1] \o <<" ">> \o Join(Tail(words))

\* Math.ceil(a / b) for a >= 0 and b > 0
Ceil(a, b) == (a + b - 1) \div b

\* mutant: the options passed in are not read
Option_Ignored(options, name, default) == default

\* const { maxSegmentDuration = 5, wordPerMinute = 150 } = options
Option(options, name, default) ==
  IF name \in DOMAIN options THEN options[name] ELSE default

\* mutant: the words per segment are rounded down
WordsPerSegment_Floor(totalWords, targetSegments) ==
  IF targetSegments = 0 THEN totalWords
  ELSE Max(1, totalWords \div targetSegments)

\* wordsPerSegment; with targetSegments 0 it is Infinity, and the loop takes
\* every word in its one round
WordsPerSegment(totalWords, targetSegments) ==
  IF targetSegments = 0 THEN totalWords ELSE Ceil(totalWords, targetSegments)

splitTextIntoSegments(text, totalDuration, maxSegmentDuration) ==
  LET words == SplitWords(Trim(text))
      totalWords == Len(words)
      targetSegments == Ceil(totalDuration, maxSegmentDuration)
      wordsPerSegment == WordsPerSegment(totalWords, targetSegments)
      rounds == Ceil(totalWords, wordsPerSegment)
      segment(k) == Join(SubSeq(words, (k - 1) * wordsPerSegment + 1,
                                Min(k * wordsPerSegment, totalWords)))
      NonEmpty(seg) == Trim(seg) # <<>>
  IN SelectSeq([k \in 1..rounds |-> Trim(segment(k))], NonEmpty)

\* Math.max(wordCount / wordPerMinute * 60, 1), in ticks
calculateReadingTime(text, wordPerMinute) ==
  Max((Len(SplitWords(Trim(text))) * 60 * TicksPerSecond) \div wordPerMinute,
      TicksPerSecond)

\* mutant: the end of a segment is not clipped to the total duration
EndTime_NoClip(currentTime, segmentDuration, totalDuration) ==
  currentTime + segmentDuration

\* Math.min(currentTime + segmentDuration, duration)
EndTime(currentTime, segmentDuration, totalDuration) ==
  Min(currentTime + segmentDuration, totalDuration * TicksPerSecond)

\* the forEach of generateCaptionsFromTranscript from segment index on
RECURSIVE LayOut(_, _, _, _, _, _)
LayOut(segments, index, currentTime, totalDuration, maxSegmentDuration, wordPerMinute) ==
  IF index > Len(segments) THEN <<>>
  ELSE LET segmentDuration ==
             Min(calculateReadingTime(segments[index], wordPerMinute),
                 maxSegmentDuration * TicksPerSecond)
           endTime == EndTime(currentTime, segmentDuration, totalDuration)
       IN (IF endTime > currentTime
             THEN <<[index |-> index - 1, text |-> segments[index],
                     startTime |-> currentTime, endTime |-> endTime]>>
             ELSE <<>>)
          \o LayOut(segments, index + 1, endTime, totalDuration,
                    maxSegmentDuration, wordPerMinute)

generateCaptionsFromTranscript(transcript, totalDuration, options) ==
  LET maxSegmentDuration ==
        Option(options, "maxSegmentDuration", DefaultMaxSegmentDuration)
      wordPerMinute == Option(options, "wordPerMinute", DefaultWordPerMinute)
  IN LayOut(splitTextIntoSegments(transcript, totalDuration, maxSegmentDuration),
            1, 0, totalDuration, maxSegmentDuration, wordPerMinute)

\* transcripts: every text of at most MaxText characters, and three longer
Texts == UNION { [1..n -> {"a", "b", " "}] : n \in 0..MaxText }
Eight == <<"one", " ", "two", " ", "three", " ", "four", " ", "five", " ",
           "six", " ", "seven", " ", "eight">>
Five == <<"a", " ", "b", " ", "c", " ", "d", " ", "e">>
Spaced == <<" ", "a", " ", " ", "b", "c", " ", "d", " ">>
Transcripts == Texts \cup {Eight, Five, Spaced}

TotalDurations == {0, 1, 3, 10}

SegmenterOptions ==
  [maxSegmentDuration : {1, 2, 5}, wordPerMinute : {60, 120}]
    \cup {[maxSegmentDuration |-> 5, wordsPerMinute |-> 120], EmptyObject}

SegmenterCalls ==
  [fn : {"generateCaptionsFromTranscript"}, transcript : Transcripts,
   duration : TotalDurations, options : SegmenterOptions]

\* ----------------------------------------------------------- style inputs
\* colours as callers write them
ShortHex == <<"#", "f", "0", "A">>
Rgb == <<"r", "g", "b", "(", "1", ",", "2", ",", "3", ")">>
Rgba == <<"r", "g", "b", "a", "(", "0", ",", " ", "0", ",", "0", ",", "0",
          ".", "5", ")">>
NotHex == <<"#", "G", "G", "G", "G", "G", "G">>
FiveHex == <<"#", "1", "2", "3", "4", "5">>
Named == <<"r", "e", "d">>
Colors == {White, ShortHex, Rgb, Rgba, NotHex, FiveHex, Named, <<>>}

\* values around the limits validateCaptionStyle tests, in hundredths
Fractions == {-1, 0, 100, 101}

\* the fields a caller sets in one group
Patches ==
  { [group |-> "position", fields |-> [type |-> "custom", x |-> v]] :
      v \in Fractions }
  \cup { [group |-> "position", fields |-> [type |-> "custom", y |-> v]] :
           v \in Fractions }
  \cup { [group |-> "position", fields |-> [type |-> "custom"]],
         [group |-> "position", fields |-> [type |-> "top", x |-> 101]] }
  \cup { [group |-> "typography", fields |-> [fontSize |-> v]] :
           v \in {7, 8, 200, 201, 300} }
  \cup { [group |-> "typography", fields |-> [fontColor |-> c]] : c \in Colors }
  \cup { [group |-> g, fields |-> [enabled |-> e, color |-> c]] :
           g \in {"background", "border", "shadow"}, e \in BOOLEAN,
           c \in Colors }
  \cup { [group |-> "background", fields |-> [enabled |-> e, opacity |-> v]] :
           e \in BOOLEAN, v \in Fractions }
  \cup { [group |-> "border", fields |-> [enabled |-> e, width |-> v]] :
           e \in BOOLEAN, v \in {-1, 0, 20, 21} }
  \cup { [group |-> "effects", fields |-> [opacity |-> v]] :
           v \in Fractions \cup {150} }
  \cup { [group |-> "effects", fields |-> [scale |-> v]] :
           v \in {9, 10, 500, 501} }

\* style with the fields of patch written over those of its group
Patched(style, patch) ==
  [style EXCEPT ![patch.group] = Spread(@, patch.fields)]

\* style with the groups named only
Restrict(style, groups) == [g \in groups |-> style[g]]

BaseStyles ==
  { CAPTION_STYLE_PRESETS[name] : name \in DOMAIN CAPTION_STYLE_PRESETS }
    \cup {NormalizeDefaults}

\* fully populated styles: one patch on a base, two patches on classic
PatchedStyles ==
  { Patched(base, p) : base \in BaseStyles, p \in Patches }
    \cup { Patched(Patched(CAPTION_STYLE_PRESETS.classic, p), q) :
             p \in Patches, q \in Patches }

\* styles with any subset of the groups absent
PartialStyles ==
  { Restrict(s, present) :
      s \in BaseStyles
              \cup { Patched(CAPTION_STYLE_PRESETS.classic, p) : p \in Patches },
      present \in SUBSET Groups }

\* styles with a group present and empty
EmptyGroupStyles ==
  { [base EXCEPT ![g] = EmptyObject] : base \in BaseStyles, g \in Groups }

Styles == PatchedStyles \cup PartialStyles

\* partial nested styles given as overrides: one or two groups, or all
OverrideStyles ==
  { Restrict(Patched(EmptyGroups, p), {p.group}) : p \in Patches }
    \cup { Restrict(Patched(Patched(EmptyGroups, p), q), {p.group, q.group}) :
             p \in Patches, q \in {r \in Patches : r.group = "effects"} }
    \cup {EmptyObject, NormalizeDefaults}

\* preset names callers pass: the four presets, two names the CaptionStyle
\* type lists without a preset, a misspelt one and an inherited member
PresetNames == {"reel", "classic", "modern", "minimal", "bold", "elegant",
                "clasic", "constructor"}

NormalizeCalls == [fn : {"normalizeCaptionStyle"},
                   style : Styles \cup EmptyGroupStyles]

ValidateCalls == [fn : {"validateCaptionStyle"}, style : Styles]

PresetCalls ==
  [fn : {"createStyleFromPreset"}, presetName : PresetNames,
   overrides : {NoOverrides} \cup { Overriding(o) : o \in OverrideStyles }]

\* --------------------------------------------------------------- compiler
\* caption segments handed to the compilers, well typed
Segments == [text : {<<>>, <<" ">>, <<"a">>}, startTime : 0..2, endTime : 0..2]

SegmentLists == UNION { [1..n -> Segments] : n \in 0..MaxSegments }

\* what a compiler emits for the caption at position index of its input:
\* the text shown between the two times
Cue(c, index) == [index |-> index, text |-> c.text,
                  startTime |-> c.startTime, endTime |-> c.endTime]

\* Array.prototype.sort((a, b) => a.startTime - b.startTime), which is stable
RECURSIVE InsertByStartTime(_, _)
InsertByStartTime(c, sorted) ==
  IF sorted = <<>> \/ c.startTime <= Head(sorted).startTime
    THEN <<c>> \o sorted
    ELSE <<Head(sorted)>> \o InsertByStartTime(c, Tail(sorted))

RECURSIVE SortByStartTime(_)
SortByStartTime(cs) ==
  IF cs = <<>> THEN <<>>
  ELSE InsertByStartTime(Head(cs), SortByStartTime(Tail(cs)))

\* drawtext build: one drawtext filter for each caption handed over
createMultipleSimpleFilters(cues) == cues

\* drawtext build: filter the valid captions, sort them, build the filters
buildComplexFilter(captions) ==
  LET cues == [i \in 1..Len(captions) |-> Cue(captions[i], i)]
      Valid(c) == /\ c.text # <<>>
                  /\ Len(Trim(c.text)) > 0
                  /\ c.startTime >= 0
                  /\ c.endTime > c.startTime
      validCaptions == SelectSeq(cues, Valid)
  IN IF Len(captions) = 0 THEN <<>>
     ELSE IF Len(validCaptions) = 0 THEN <<>>
     ELSE createMultipleSimpleFilters(SortByStartTime(validCaptions))

\* ------------------------------------------------------------ ass colours
\* hexToAssColor of src/src/services/exportService.ts. The numbers it
\* computes are never negative; NaN stands for Number.NaN
NaN == -1

HexChars == <<"0", "1", "2", "3", "4", "5", "6", "7", "8", "9",
              "A", "B", "C", "D", "E", "F">>

\* String.prototype.toUpperCase on one character
UpperCase(c) ==
  LET lower == <<"a", "b", "c", "d", "e", "f">>
  IN IF \E i \in 1..6 : lower[i] = c
       THEN HexChars[10 + CHOOSE i \in 1..6 : lower[i] = c]
     ELSE IF c = "n" THEN "N"
     ELSE c

\* the value of a hexadecimal digit
HexValue(c) == (CHOOSE i \in 1..16 : HexChars[i] = UpperCase(c)) - 1

\* the number a run of digits of the given radix stands for
RECURSIVE DigitsValue(_, _)
DigitsValue(digits, radix) ==
  IF digits = <<>> THEN 0
  ELSE DigitsValue(SubSeq(digits, 1, Len(digits) - 1), radix) * radix
         + HexValue(digits[Len(digits)])

\* parseInt(text, radix): the leading digits count, NaN when there are none
parseInt(text, radix) ==
  LET set == IF radix = 16 THEN HexDigits ELSE Digits
      end == Skip(text, 1, set)
  IN IF end = 1 THEN NaN ELSE DigitsValue(SubSeq(text, 1, end - 1), radix)

\* parseFloat(text) for text matching [\d.]+, in tenths: the digits before
\* the first point and the first digit after it; NaN when neither has digits
ParseFloatTenths(text) ==
  LET point == Skip(text, 1, Digits)
      whole == SubSeq(text, 1, point - 1)
      hasTenth == /\ point < Len(text)
                  /\ text[point] = "."
                  /\ text[point + 1] \in Digits
  IN IF whole = <<>> /\ ~hasTenth THEN NaN
     ELSE DigitsValue(whole, 10) * 10
            + (IF hasTenth THEN HexValue(text[point + 1]) ELSE 0)

\* n.toString(16).toUpperCase() for an integer n >= 0
RECURSIVE ToString16(_)
ToString16(n) ==
  IF n < 16 THEN <<HexChars[n + 1]>>
  ELSE ToString16(n \div 16) \o <<HexChars[(n % 16) + 1]>>

\* padStart(2, '0')
PadStart2(text) == IF Len(text) < 2 THEN <<"0">> \o text ELSE text

\* toHex(n): NaN prints as "NaN", upper-cased
toHex(n) ==
  IF n = NaN THEN <<"N", "A", "N">> ELSE PadStart2(ToString16(n))

\* a run of one or more characters of set from position i: the position after
\* it, 0 when it does not match
RunAt(color, i, set) ==
  IF i = 0 \/ Skip(color, i, set) = i THEN 0 ELSE Skip(color, i, set)

\* "," \s* from position i: the position after it, 0 when it does not match
SeparatorAt(color, i) ==
  IF CommaAt(color, i) = 0 THEN 0
  ELSE Skip(color, CommaAt(color, i), Whitespace)

\* hex.match(/rgba\((\d+),\s*(\d+),\s*(\d+),\s*([\d.]+)\)/) for a colour that
\* starts with "rgba" and holds "rgba(" once: the four groups, or no match
RgbaMatch(hex) ==
  LET r1 == 6
      r2 == RunAt(hex, r1, Digits)
      g1 == SeparatorAt(hex, r2)
      g2 == RunAt(hex, g1, Digits)
      b1 == SeparatorAt(hex, g2)
      b2 == RunAt(hex, b1, Digits)
      a1 == SeparatorAt(hex, b2)
      a2 == RunAt(hex, a1, Digits \cup {"."})
  IN IF /\ Len(hex) >= 5
        /\ hex[5] = "("
        /\ a2 # 0
        /\ a2 <= Len(hex)
        /\ hex[a2] = ")"
       THEN [matched |-> TRUE,
             r |-> SubSeq(hex, r1, r2 - 1), g |-> SubSeq(hex, g1, g2 - 1),
             b |-> SubSeq(hex, b1, b2 - 1), a |-> SubSeq(hex, a1, a2 - 1)]
       ELSE [matched |-> FALSE]

\* hex.startsWith('rgba')
StartsWithRgba(hex) ==
  Len(hex) >= 4 /\ SubSeq(hex, 1, 4) = <<"r", "g", "b", "a">>

\* hex.replace('#', ''): the first '#' is removed
RemoveFirstHash(hex) ==
  IF \E i \in 1..Len(hex) : hex[i] = "#"
    THEN LET i == CHOOSE i \in 1..Len(hex) :
                    hex[i] = "#" /\ \A k \in 1..(i - 1) : hex[k] # "#"
         IN SubSeq(hex, 1, i - 1) \o SubSeq(hex, i + 1, Len(hex))
    ELSE hex

\* Math.round(alpha * 255) for alpha in tenths
AlphaByte(tenths) ==
  IF tenths = NaN THEN NaN ELSE (tenths * 51 + 1) \div 2

AssColor(alphaHex, b, g, r) ==
  <<"&", "H">> \o alphaHex \o toHex(b) \o toHex(g) \o toHex(r) \o <<"&">>

hexToAssColor(hex) ==
  LET rgbaMatch == IF StartsWithRgba(hex) THEN RgbaMatch(hex)
                   ELSE [matched |-> FALSE]
      stripped == RemoveFirstHash(hex)
      doubled == IF Len(stripped) = 3
                   THEN <<stripped[1], stripped[1], stripped[2], stripped[2],
                          stripped[3], stripped[3]>>
                   ELSE stripped
      cleanHex == IF Len(doubled) # 6 THEN <<"F", "F", "F", "F", "F", "F">>
                  ELSE doubled
  IN IF rgbaMatch.matched
       THEN AssColor(toHex(AlphaByte(ParseFloatTenths(rgbaMatch.a))),
                     parseInt(rgbaMatch.b, 10), parseInt(rgbaMatch.g, 10),
                     parseInt(rgbaMatch.r, 10))
       ELSE AssColor(<<"0", "0">>,
                     parseInt(SubSeq(cleanHex, 5, 6), 16),
                     parseInt(SubSeq(cleanHex, 3, 4), 16),
                     parseInt(SubSeq(cleanHex, 1, 2), 16))

\* colours handed to hexToAssColor: #RGB and #RRGGBB over a few digits, one
\* of them not hexadecimal; rgba(...) over a few channels and alphas, with
\* and without blanks; and the other spellings of Colors
SomeDigits == {"0", "F", "a", "G"}

HexColors ==
  { <<"#">> \o digits :
      digits \in [1..3 -> SomeDigits] \cup [1..6 -> SomeDigits] }

Channels == {<<"0">>, <<"1", "6">>, <<"2", "5", "5">>}
Alphas == {<<"0">>, <<"1">>, <<"0", ".", "5">>, <<"0", ".", "8">>, <<".">>}
Blanks == {<<>>, <<" ">>}

RgbaText(lead, r, g, b, a, gap) ==
  <<"r", "g", "b", "a", "(">> \o lead \o r \o <<",">> \o gap \o g \o <<",">>
    \o gap \o b \o <<",">> \o gap \o a \o <<")">>

RgbaColors ==
  { RgbaText(lead, r, g, b, a, gap) :
      lead \in Blanks, r \in Channels, g \in Channels, b \in Channels,
      a \in Alphas, gap \in Blanks }

ColorCalls == [fn : {"hexToAssColor"},
               hex : HexColors \cup RgbaColors \cup Colors]

\* ---------------------------------------------------------- ass timestamps
\* secondsToAssTime of src/src/services/exportService.ts. Times are in
\* milliseconds; a time whose third decimal is 5 is left to the binary
\* representation by toFixed and is not among the times handed in
MsPerSecond == 1000

\* n.toString() for an integer n >= 0
RECURSIVE ToString10(_)
ToString10(n) ==
  IF n < 10 THEN <<HexChars[n + 1]>>
  ELSE ToString10(n \div 10) \o <<HexChars[(n % 10) + 1]>>

\* x.toFixed(2) for x >= 0 in milliseconds
toFixed2(ms) ==
  LET centis == (ms + 5) \div 10
  IN ToString10(centis \div 100) \o <<".">> \o PadStart2(ToString10(centis % 100))

\* padStart(5, '0') of a text of four characters or more
PadStart5(text) == IF Len(text) < 5 THEN <<"0">> \o text ELSE text

secondsToAssTime(sec) ==
  LET s == Max(0, sec)
      hh == s \div (3600 * MsPerSecond)
      mm == (s % (3600 * MsPerSecond)) \div (60 * MsPerSecond)
      ss == PadStart5(toFixed2(s % (60 * MsPerSecond)))
  IN ToString10(hh) \o <<":">> \o PadStart2(ToString10(mm)) \o <<":">> \o ss

\* times around 0, a second, a minute and an hour
Near(ms) == {ms - 1000, ms - 6, ms - 4, ms - 1, ms, ms + 1, ms + 4, ms + 6,
             ms + 994, ms + 996, ms + 999, ms + 1000, ms + 59000}

AssTimes == UNION { Near(ms) : ms \in {0, 1000, 59000, 60000, 3540000,
                                       3600000, 3660000, 36000000} }

TimeCalls == [fn : {"secondsToAssTime"}, sec : AssTimes]

\* ---------------------------------------------------------------- ass text
\* mutant: without the g flag, only the first occurrence is replaced
RECURSIVE ReplaceAll_First(_, _, _)
ReplaceAll_First(text, from, to) ==
  IF text = <<>> THEN <<>>
  ELSE IF Head(text) = from THEN to \o Tail(text)
  ELSE <<Head(text)>> \o ReplaceAll_First(Tail(text), from, to)

\* text.replace(/from/g, to)
RECURSIVE ReplaceAll(_, _, _)
ReplaceAll(text, from, to) ==
  IF text = <<>> THEN <<>>
  ELSE (IF Head(text) = from THEN to ELSE <<Head(text)>>)
         \o ReplaceAll(Tail(text), from, to)

escapeAssText(text) ==
  ReplaceAll(ReplaceAll(ReplaceAll(text, "{", <<"(">>), "}", <<")">>),
             "\n", <<"\\", "N">>)

\* caption texts: every text of at most MaxText characters over letters,
\* braces, the newline, the backslash and the substitutes themselves
CueTexts ==
  UNION { [1..n -> {"a", "{", "}", "\n", "\\", "("}] : n \in 0..MaxText }

EscapeCalls == [fn : {"escapeAssText"}, text : CueTexts]

\* ------------------------------------------------------------ ass document
\* writeAssFile and generateAssEffect of src/src/services/exportService.ts.
\* They read the fields of the legacy flat style (type, position, fontSize,
\* color, ...). The earlier router hands over the flat style of the request,
\* the router of health.ts the nested one, whose position is an object and
\* which has none of the other fields read. Animation times are in twelfths
\* of a millisecond, so that a quarter and a third of a duration are exact
TicksPerMs == 12

\* style.field || fallback for a numeric field; 0 is falsy
OrElse(style, field, fallback) ==
  IF field \in DOMAIN style /\ style[field] # 0 THEN style[field]
  ELSE fallback

\* the style has the flat shape: no group other than position
IsFlat(style) == DOMAIN style \cap (Groups \ {"position"}) = {}

\* style.position === value; an object never equals a string
PositionIs(style, value) ==
  /\ IsFlat(style)
  /\ "position" \in DOMAIN style
  /\ style.position = value

\* style.type; undefined on a nested style
TypeOf(style) ==
  IF IsFlat(style) /\ "type" \in DOMAIN style THEN style.type ELSE Undefined

\* Math.round(n * num / den) for n * num >= 0
RoundRatio(n, num, den) == (2 * n * num + den) \div (2 * den)

ForcedPrimary == <<"&", "H", "0", "0", "F", "F", "F", "F", "F", "F", "&">>
StyleBackColour == <<"&", "H", "0", "0", "0", "0", "0", "0", "0", "0">>

\* an animation window \t(from, to, ...)
Window(from, to) == [from |-> from, to |-> to]

\* the directive block of a cue. caption times are in seconds
generateAssEffect(style, centerX, yPosition, caption, scaledFontSize, outline, shadow) ==
  LET cueDuration ==
        (caption.endTime - caption.startTime) * MsPerSecond * TicksPerMs
      animationDuration == OrElse(style, "animationDuration", 300) * TicksPerMs
      animationDelay == OrElse(style, "animationDelay", 0) * TicksPerMs
      baseEffect ==
        [textColor |-> ForcedPrimary, bord |-> outline, shad |-> shadow,
         pos |-> <<centerX, yPosition>>,
         frz |-> IF IsFlat(style) /\ "rotation" \in DOMAIN style
                   THEN <<style.rotation>> ELSE <<>>]
      With(windows, move) ==
        [f \in DOMAIN baseEffect \cup {"windows", "move"} |->
           IF f = "windows" THEN windows
           ELSE IF f = "move" THEN move
           ELSE baseEffect[f]]
      reelDuration == Min(animationDuration, cueDuration \div 4)
      bounceDuration == Min(animationDuration, cueDuration \div 4)
      slideDuration == Min(animationDuration, cueDuration \div 3)
      slideDistance == Min(200, (centerX * 3) \div 10)
      slideStartX == IF PositionIs(style, "top") THEN centerX - slideDistance
                     ELSE centerX + slideDistance
  IN IF TypeOf(style) = "reel"
       THEN With(<<Window(animationDelay, animationDelay + reelDuration),
                   Window(animationDelay + reelDuration, cueDuration - reelDuration),
                   Window(cueDuration - reelDuration, cueDuration)>>, <<>>)
     ELSE IF TypeOf(style) = "bounce"
       THEN With(<<Window(animationDelay, animationDelay + bounceDuration),
                   Window(animationDelay + bounceDuration,
                          animationDelay + bounceDuration * 2),
                   Window(animationDelay + bounceDuration * 2,
                          animationDelay + bounceDuration * 3),
                   Window(animationDelay + bounceDuration * 3, cueDuration)>>,
                 <<>>)
     ELSE IF TypeOf(style) = "slide"
       THEN With(<<Window(animationDelay, animationDelay + slideDuration)>>,
                 <<slideStartX, yPosition, centerX, yPosition>>)
     ELSE With(<<>>, <<>>)

\* Number(wStr) || 1080, Number(hStr) || 1920: 0 stands for a part of the
\* resolution that is not a number
PlayRes(resolution) ==
  [x |-> IF resolution.w = 0 THEN 1080 ELSE resolution.w,
   y |-> IF resolution.h = 0 THEN 1920 ELSE resolution.h]

\* Math.max(48, Math.round(baseFontSize * scaleFactor)) with scaleFactor
\* Math.max(1, Math.min(playResX / 1080, playResY / 1920))
ScaledFontSize(style, res) ==
  LET baseFontSize == IF IsFlat(style) THEN OrElse(style, "fontSize", 36)
                      ELSE 36
      byWidth == res.x * 1920 <= res.y * 1080
      num == IF byWidth THEN res.x ELSE res.y
      den == IF byWidth THEN 1080 ELSE 1920
  IN Max(48, IF num <= den THEN baseFontSize
             ELSE RoundRatio(baseFontSize, num, den))

\* const align = ...
Alignment(style) ==
  IF PositionIs(style, "top") THEN 8
  ELSE IF PositionIs(style, "center") THEN 5
  ELSE 2

\* Math.max(style.padding || 40, Math.round(playResY * 0.06))
MarginV(style, res) ==
  Max(IF IsFlat(style) THEN OrElse(style, "padding", 40) ELSE 40,
      RoundRatio(res.y, 6, 100))

\* the switch on style.position; playResY / 2 is whole for the resolutions
\* handed in
YPosition(style, res) ==
  IF PositionIs(style, "top")
    THEN MarginV(style, res) + ScaledFontSize(style, res) + 20
  ELSE IF PositionIs(style, "center") THEN res.y \div 2
  ELSE res.y - MarginV(style, res) - ScaledFontSize(style, res) - 20

\* the line "Style: Default,..." of the header
StyleLine(style, res) ==
  LET scaledFontSize == ScaledFontSize(style, res)
  IN [fontSize |-> scaledFontSize,
      primaryColour |-> ForcedPrimary,
      backColour |-> StyleBackColour,
      outline |-> Max(4, RoundRatio(scaledFontSize, 12, 100)),
      shadow |-> Max(3, RoundRatio(scaledFontSize, 8, 100)),
      alignment |-> Alignment(style),
      marginL |-> Max(IF IsFlat(style) THEN OrElse(style, "padding", 20) ELSE 20,
                      RoundRatio(res.x, 5, 100)),
      marginV |-> MarginV(style, res)]

\* one line "Dialogue: 0,start,end,Default,,0,0,0,,effect text"
Dialogue(c, index, style, res) ==
  LET line == StyleLine(style, res)
      cue == Cue(c, index)
      more == [start |-> secondsToAssTime(c.startTime * MsPerSecond),
               end |-> secondsToAssTime(c.endTime * MsPerSecond),
               effect |-> generateAssEffect(style, res.x \div 2,
                            YPosition(style, res), c, line.fontSize,
                            line.outline, line.shadow),
               shown |-> escapeAssText(c.text)]
  IN [f \in DOMAIN cue \cup DOMAIN more |->
        IF f \in DOMAIN cue THEN cue[f] ELSE more[f]]

\* ass build: const events = captions.map(c => `Dialogue: ...`)
WriteAssFileEvents(captions, style, res) ==
  [i \in 1..Len(captions) |-> Dialogue(captions[i], i, style, res)]

\* the document written: the header's style line and the events
writeAssFile(captions, style, resolution) ==
  [styleLine |-> StyleLine(style, PlayRes(resolution)),
   events |-> WriteAssFileEvents(captions, style, PlayRes(resolution))]

Red == <<"#", "F", "F", "0", "0", "0", "0">>

\* flat styles: rotation is optional, 0 stands for an unset numeric field
FlatAssStyles ==
  LET fixed == [type : {"reel", "classic", "bounce", "slide"},
                position : {"top", "center", "bottom"},
                fontSize : {0, 60}, color : {White, Red},
                backgroundColor : {Black},
                animationDuration : {0, 100, 1000},
                animationDelay : {0, 600}]
  IN fixed \cup { Spread(f, [rotation |-> 0]) :
                    f \in { g \in fixed : g.animationDelay = 0
                                          /\ g.animationDuration = 0 } }

\* nested styles as the router of health.ts passes them
NestedAssStyles ==
  { Patched(base, [group |-> "position", fields |-> [type |-> t]]) :
      base \in BaseStyles, t \in {"top", "center", "bottom"} }
    \cup { Patched(CAPTION_STYLE_PRESETS.classic,
                   [group |-> "typography", fields |-> [fontColor |-> Red]]) }

DefaultAssStyle ==
  [type |-> "classic", position |-> "bottom", fontSize |-> 0,
   color |-> White, backgroundColor |-> Black, animationDuration |-> 0,
   animationDelay |-> 0]

\* "WxH" as the two numbers; 0 for a part that is not a number
Resolutions == {[w |-> 1080, h |-> 1920], [w |-> 1920, h |-> 1080],
                [w |-> 2160, h |-> 3840], [w |-> 0, h |-> 0]}

DefaultResolution == [w |-> 1080, h |-> 1920]

\* captions of one to three seconds, one with a brace in its text
DocumentCaptions ==
  { <<[text |-> <<"a">>, startTime |-> 0, endTime |-> e]>> : e \in 1..3 }
    \cup { <<[text |-> <<"{", "a">>, startTime |-> 1, endTime |-> 2],
             [text |-> <<"a">>, startTime |-> 2, endTime |-> 1]>> }

\* the compilers are called with any captions and one style, or with a few
\* captions and any style and resolution
CompileCalls ==
  [fn : {"buildComplexFilter"}, captions : SegmentLists]
    \cup [fn : {"writeAssFile"}, captions : SegmentLists,
          style : {DefaultAssStyle}, resolution : {DefaultResolution}]
    \cup [fn : {"writeAssFile"}, captions : DocumentCaptions,
          style : FlatAssStyles \cup NestedAssStyles,
          resolution : Resolutions]

\* styles and captions handed to generateAssEffect: 0 stands for an unset
\* animationDuration or animationDelay
EffectStyles ==
  [type : {"reel", "classic", "bounce", "slide"},
   position : {"top", "bottom"},
   animationDuration : {0, 100, 300, 1000},
   animationDelay : {0, 200, 600, 3000}]

EffectCaptions ==
  [text : {<<"a">>}, startTime : 0..1, endTime : 0..3]

EffectCalls ==
  [fn : {"generateAssEffect"}, style : EffectStyles,
   caption : EffectCaptions, centerX : {540}, yPosition : {1737},
   scaledFontSize : {48}, outline : {6}, shadow : {4}]

\* ---------------------------------------------------------- library calls
\* a call returns
Return(value) ==
  /\ ~result.returned
  /\ result' = [returned |-> TRUE, value |-> value]
  /\ UNCHANGED <<call, service>>

GenerateCaptions ==
  /\ call.fn = "generateCaptionsFromTranscript"
  /\ Return(generateCaptionsFromTranscript(call.transcript, call.duration,
                                           call.options))

Normalize ==
  /\ call.fn = "normalizeCaptionStyle"
  /\ Return(normalizeCaptionStyle(call.style))

Validate ==
  /\ call.fn = "validateCaptionStyle"
  /\ Return(validateCaptionStyle(call.style))

FromPreset ==
  /\ call.fn = "createStyleFromPreset"
  /\ Return(createStyleFromPreset(call.presetName, call.overrides))

WriteAssFile ==
  /\ call.fn = "writeAssFile"
  /\ Return(writeAssFile(call.captions, call.style, call.resolution))

BuildComplexFilter ==
  /\ call.fn = "buildComplexFilter"
  /\ Return(buildComplexFilter(call.captions))

HexToAssColor ==
  /\ call.fn = "hexToAssColor"
  /\ Return(hexToAssColor(call.hex))

SecondsToAssTime ==
  /\ call.fn = "secondsToAssTime"
  /\ Return(secondsToAssTime(call.sec))

EscapeAssText ==
  /\ call.fn = "escapeAssText"
  /\ Return(escapeAssText(call.text))

GenerateAssEffect ==
  /\ call.fn = "generateAssEffect"
  /\ Return(generateAssEffect(call.style, call.centerX, call.yPosition,
                              call.caption, call.scaledFontSize,
                              call.outline, call.shadow))

Returned(fn) == call.fn = fn /\ result.returned

LibInit ==
  /\ impl = "ass"
  /\ Idle
  /\ result = NoResult
  /\ \/ call \in SegmenterCalls
     \/ call \in NormalizeCalls
     \/ call \in ValidateCalls
     \/ call \in PresetCalls
     \/ call \in CompileCalls
     \/ call \in ColorCalls
     \/ call \in TimeCalls
     \/ call \in EscapeCalls
     \/ call \in EffectCalls

LibNext ==
  \/ GenerateCaptions
  \/ Normalize
  \/ Validate
  \/ FromPreset
  \/ WriteAssFile
  \/ BuildComplexFilter
  \/ HexToAssColor
  \/ SecondsToAssTime
  \/ EscapeAssText
  \/ GenerateAssEffect

LibSpec == LibInit /\ [][LibNext]_vars

\* ------------------------------------------------------------------ claims
\* the job store holds a record for j
Created(j) == jobs[j].status # "absent"

\* C1: once a job's record is completed or failed, no later event changes
\* any field of it
C1_TerminalRecordImmutable ==
  [][\A j \in JobIds : Terminal(jobs[j]) => jobs'[j] = jobs[j]]_vars

\* C2: the stored progress never decreases from creation until a terminal
\* state is reached
C2_ProgressMonotonic ==
  [][\A j \in JobIds :
       (Created(j) /\ ~Terminal(jobs[j]))
         => jobs'[j].progress >= jobs[j].progress]_vars

\* C3: when startBurnIn returns, the stored record is pending with progress
\* 0, which is what the router answers
C3_PendingAtReturn ==
  (lastResponse.route = "burn-in" /\ lastResponse.status = 200)
    => /\ lastResponse.storedStatus = "pending"
       /\ lastResponse.storedProgress = 0
       /\ lastResponse.storedStatus = lastResponse.bodyStatus
       /\ lastResponse.storedProgress = lastResponse.bodyProgress

\* C4: a job whose pipeline has no step left to take is completed or failed
\* (so no job stays pending or processing forever)
C4_PipelineEndsTerminal ==
  \A j \in JobIds :
    pc[j] \in {"settled", "exited", "hung"} => Terminal(jobs[j])

\* C5: completed implies outputPath, publicUrl and progress 100; failed
\* implies error; no outputPath or publicUrl unless completed
C5_RecordShape ==
  \A j \in JobIds :
    /\ jobs[j].status = "completed"
         => /\ jobs[j].outputPath # NoPath
            /\ jobs[j].publicUrl # NoPath
            /\ jobs[j].progress = DoneProgress
    /\ jobs[j].status = "failed" => jobs[j].error # Undefined
    /\ jobs[j].status \in {"pending", "processing", "failed"}
         => jobs[j].outputPath = NoPath /\ jobs[j].publicUrl = NoPath

\* C6: a download streams the file only for a completed job with an
\* outputPath whose file exists; an unknown id is not-found, a pending,
\* processing or failed job is not-ready, a completed job without its file is
\* file-missing
C6_DownloadGate ==
  [][\A id \in JobIds, exists \in BOOLEAN :
       GetDownload(id, exists) =>
         /\ lastResponse'.file
              <=> (jobs[id].status = "completed"
                   /\ jobs[id].outputPath # NoPath /\ exists)
         /\ ~Created(id)
              => lastResponse'.error = "Job not found"
         /\ jobs[id].status \in {"pending", "processing", "failed"}
              => lastResponse'.error = "Export not ready"
         /\ (jobs[id].status = "completed" /\ ~exists)
              => lastResponse'.error = "File missing"
         /\ lastResponse'.file => lastResponse'.error = Undefined]_vars

C6_Witness ==
  /\ lastResponse.route = "download"
  /\ lastResponse.error = "Export not ready"
  /\ jobs[lastResponse.jobId].status = "failed"

\* C7: every id returned by startBurnIn differs from the ids returned before,
\* and exactly one pipeline is launched per id
C7_OnePipelinePerId ==
  /\ \A i, k \in 1..Len(returned) : i # k => returned[i] # returned[k]
  /\ \A j \in JobIds :
       launched[j] = IF \E i \in 1..Len(returned) : returned[i] = j
                       THEN 1 ELSE 0

C7_Witness ==
  /\ Len(returned) >= 2
  /\ \E j, k \in JobIds :
       /\ jobs[j].status = "failed"
       /\ pc[k] \in {"probe", "write", "spawned", "running"}

\* C8: (ass build) an error raised in a job's pipeline is recorded on the
\* job, whose record is failed with the error's message, and startBurnIn
\* returned the job's id
C8_ErrorsRecorded ==
  impl = "ass" =>
    \A j \in JobIds :
      thrown[j] # Undefined
        => /\ jobs[j].status = "failed"
           /\ jobs[j].error = thrown[j]
           /\ \E i \in 1..Len(returned) : returned[i] = j

C8_Witness ==
  /\ impl = "ass"
  /\ \E j \in JobIds : thrown[j] = ProbeError /\ jobs[j].status = "failed"
  /\ \E j \in JobIds : thrown[j] = ResolveError /\ jobs[j].status = "failed"

\* C9: a burn-in request answered with a rejection leaves the job store
\* unchanged: no id allocated, no record stored, no pipeline launched
C9_RejectionCreatesNothing ==
  [][(/\ lastResponse' # lastResponse
      /\ lastResponse'.route = "burn-in"
      /\ lastResponse'.status # 200)
       => UNCHANGED <<jobs, pc, launched, returned>>]_vars

C9_Witness ==
  /\ lastResponse.route = "burn-in"
  /\ lastResponse.error = "Invalid style configuration"
  /\ Len(returned) = 1

\* what the data model requires of a caption: non-empty text, endTime > startTime
CaptionInvariant(c) ==
  /\ c.textType = "string"
  /\ Trim(c.text) # <<>>
  /\ c.numericTimes
  /\ c.endTime > c.startTime

\* C10: a request in which some caption has blank text or endTime <=
\* startTime is rejected without creating a job
C10_BadCaptionsRejected ==
  [][\A req \in Requests :
       (/\ PostBurnIn(req)
        /\ req.isArray
        /\ \E i \in 1..Len(req.captions) : ~CaptionInvariant(req.captions[i]))
         => /\ lastResponse'.status = 400
            /\ UNCHANGED <<jobs, pc, launched, returned>>]_vars

\* C11: every style the burn-in route hands to startBurnIn passes
\* validateCaptionStyle, on the custom, the preset and the default path
C11_PipelineStyleValid ==
  [][\A req \in Requests :
       (PostBurnIn(req) /\ ReachesStartBurnIn(req))
         => ValidateCaptionStyle(FinalStyle(req))]_vars

\* C12: progress is an integer in 0..100, at most 99 while the job is
\* pending, processing or failed, and 100 only when it is completed
C12_ProgressBounds ==
  \A j \in JobIds :
    Created(j) =>
      /\ jobs[j].progress \in 0..DoneProgress
      /\ jobs[j].status \in {"pending", "processing", "failed"}
           => jobs[j].progress <= MaxRunningProgress
      /\ jobs[j].progress = DoneProgress => jobs[j].status = "completed"

C12_Witness ==
  \E j, k \in JobIds :
    /\ jobs[j].status = "processing" /\ jobs[j].progress = MaxRunningProgress
    /\ jobs[k].status = "failed" /\ jobs[k].progress = MaxRunningProgress
    /\ duration[j] > 0 /\ duration[j] <= MaxMarker

\* C17: every style the burn-in route hands to startBurnIn has all seven
\* groups
C17_AllGroupsPopulated ==
  [][\A req \in Requests :
       (PostBurnIn(req) /\ ReachesStartBurnIn(req))
         => Groups \subseteq DOMAIN FinalStyle(req)]_vars

\* the words of a text, none for a blank text
WordsOf(text) == IF Trim(text) = <<>> THEN <<>> ELSE SplitWords(Trim(text))

\* the words of the segments from i on, in order
RECURSIVE WordsFrom(_, _)
WordsFrom(segments, i) ==
  IF i > Len(segments) THEN <<>>
  ELSE WordsOf(segments[i].text) \o WordsFrom(segments, i + 1)

\* C13: the segments returned tile time back-to-back: the first starts at
\* 0, each later one starts where the previous one ends, each has startTime
\* < endTime, and the last ends no later than totalDuration
C13_SegmentsTile ==
  Returned("generateCaptionsFromTranscript") =>
    LET segments == result.value
    IN /\ Len(segments) > 0 => segments[1].startTime = 0
       /\ \A i \in 1..(Len(segments) - 1) :
            segments[i + 1].startTime = segments[i].endTime
       /\ \A i \in 1..Len(segments) :
            segments[i].startTime < segments[i].endTime
       /\ Len(segments) > 0 =>
            segments[Len(segments)].endTime <= call.duration * TicksPerSecond

C13_Witness ==
  /\ Returned("generateCaptionsFromTranscript")
  /\ Len(result.value) >= 3
  /\ result.value[Len(result.value)].endTime = call.duration * TicksPerSecond

\* the call passes the option name with this value
Passed(name, value) ==
  name \in DOMAIN call.options /\ call.options[name] = value

\* the example call of C14: eight words, 10 seconds, at most 5 seconds a
\* segment
ExampleCall ==
  /\ Returned("generateCaptionsFromTranscript")
  /\ call.transcript = Eight
  /\ call.duration = 10
  /\ Passed("maxSegmentDuration", 5)

\* two segments of four words, each at most 5 seconds long
TwoOfFour ==
  /\ Len(result.value) = 2
  /\ \A i \in 1..2 :
       /\ Len(WordsOf(result.value[i].text)) = 4
       /\ result.value[i].endTime - result.value[i].startTime
            <= 5 * TicksPerSecond

\* t is within a second of the time of s seconds
About(t, s) ==
  /\ t >= (s - 1) * TicksPerSecond
  /\ t <= (s + 1) * TicksPerSecond

\* C14 as stated: the example yields two segments of four words, each at
\* most 5 seconds, spanning about [0,5) and [5,10)
C14_ExampleSpans ==
  (ExampleCall /\ (Passed("wordPerMinute", 120)
                   \/ Passed("wordsPerMinute", 120)))
    => /\ TwoOfFour
       /\ result.value[1].startTime = 0
       /\ About(result.value[1].endTime, 5)
       /\ About(result.value[2].startTime, 5)
       /\ About(result.value[2].endTime, 10)

\* C14 amended: with option wordPerMinute 120 the example yields two
\* segments of four words, each 2 seconds long (the reading time of four
\* words), spanning [0,2) and [2,4)
C14_ExampleReadingTime ==
  (ExampleCall /\ Passed("wordPerMinute", 120))
    => /\ TwoOfFour
       /\ result.value[1].startTime = 0
       /\ result.value[1].endTime = 2 * TicksPerSecond
       /\ result.value[2].startTime = 2 * TicksPerSecond
       /\ result.value[2].endTime = 4 * TicksPerSecond

C14_Witness ==
  /\ ExampleCall
  /\ Passed("wordPerMinute", 120)
  /\ Len(result.value) = 2

\* C15: the words are split into contiguous groups of at most
\* ceil(totalWords / ceil(totalDuration / maxSegmentDuration)) words; no more
\* segments than targetSegmentCount are emitted; their words in order are a
\* prefix of the transcript's words; a blank transcript yields no segment
C15_ContiguousGroups ==
  Returned("generateCaptionsFromTranscript") =>
    LET segments == result.value
        words == WordsOf(call.transcript)
        targetSegmentCount ==
          Ceil(call.duration,
               IF "maxSegmentDuration" \in DOMAIN call.options
                 THEN call.options.maxSegmentDuration
                 ELSE DefaultMaxSegmentDuration)
        emitted == WordsFrom(segments, 1)
    IN /\ Len(segments) <= targetSegmentCount
       /\ \A i \in 1..Len(segments) :
            Len(WordsOf(segments[i].text)) * targetSegmentCount
              < Len(words) + targetSegmentCount
       /\ Len(emitted) <= Len(words)
       /\ emitted = SubSeq(words, 1, Len(emitted))
       /\ words = <<>> => segments = <<>>

C15_Witness ==
  /\ Returned("generateCaptionsFromTranscript")
  /\ call.transcript = Five
  /\ Len(result.value) = 3
  /\ Len(WordsOf(result.value[3].text)) = 1

\* C16: normalizing a normalized style changes nothing
C16_NormalizeIdempotent ==
  Returned("normalizeCaptionStyle") =>
    normalizeCaptionStyle(result.value) = result.value

C16_Witness ==
  /\ Returned("normalizeCaptionStyle")
  /\ DOMAIN call.style = {"typography", "effects"}
  /\ call.style.typography.fontSize = 300
  /\ DOMAIN result.value = Groups

\* the colours of Colors that are #RGB, #RRGGBB, rgb(...) or rgba(...)
ValidColors == {White, Black, Anthracite, ShortHex, Rgb, Rgba}

GoodColor(group, field) == Has(group, field) /\ group[field] \in ValidColors

Within(group, field, low, high) ==
  Has(group, field) /\ group[field] >= low /\ group[field] <= high

\* every rule C18 lists holds of style
RulesHold(style) ==
  LET position == GroupOf(style, "position")
      typography == GroupOf(style, "typography")
      background == GroupOf(style, "background")
      border == GroupOf(style, "border")
      shadow == GroupOf(style, "shadow")
      effects == GroupOf(style, "effects")
  IN /\ (Has(position, "type") /\ position.type = "custom") =>
          /\ Has(position, "x") => Within(position, "x", 0, One)
          /\ Has(position, "y") => Within(position, "y", 0, One)
     /\ Within(typography, "fontSize", MinFontSize, MaxFontSize)
     /\ GoodColor(typography, "fontColor")
     /\ Enabled(background) =>
          /\ GoodColor(background, "color")
          /\ Within(background, "opacity", 0, One)
     /\ Enabled(border) =>
          /\ GoodColor(border, "color")
          /\ Within(border, "width", 0, MaxBorderWidth)
     /\ Enabled(shadow) => GoodColor(shadow, "color")
     /\ Within(effects, "opacity", 0, One)
     /\ Within(effects, "scale", MinScale, MaxScale)

\* the cases C18 names: fontSize 300 is rejected with the font size error,
\* effects.opacity 1.5 is rejected, the four presets are valid
NamedCases ==
  /\ (Has(GroupOf(call.style, "typography"), "fontSize")
      /\ call.style.typography.fontSize = 300) =>
       /\ ~result.value.isValid
       /\ "Font size must be between 8 and 200" \in result.value.errors
  /\ (Has(GroupOf(call.style, "effects"), "opacity")
      /\ call.style.effects.opacity = 150) => ~result.value.isValid
  /\ (\E name \in DOMAIN CAPTION_STYLE_PRESETS :
        call.style = CAPTION_STYLE_PRESETS[name]) => result.value.isValid

RequiredGroups == Groups \ {"animation"}

C19_PresetMerge ==
  Returned("createStyleFromPreset") =>
    LET preset == IF call.presetName \in DOMAIN CAPTION_STYLE_PRESETS
                    THEN CAPTION_STYLE_PRESETS[call.presetName]
                    ELSE CAPTION_STYLE_PRESETS.classic
        given == call.overrides.style
    IN \A g \in Groups :
         /\ g \in DOMAIN result.value
         /\ LET supplied == IF g \in DOMAIN given THEN DOMAIN given[g] ELSE {}
            IN /\ DOMAIN result.value[g] = DOMAIN preset[g] \cup supplied
               /\ \A f \in DOMAIN result.value[g] :
                    result.value[g][f] =
                      IF f \in supplied THEN given[g][f] ELSE preset[g][f]

\* the segment can be shown: text left after trimming, and start before end
Showable(c) == Trim(c.text) # <<>> /\ c.endTime > c.startTime

\* C20: the cues are in non-decreasing startTime order, none is for a
\* segment with blank text or endTime <= startTime, and every other segment
\* has exactly one
C20_CuesSortedAndFiltered ==
  (Returned("writeAssFile") \/ Returned("buildComplexFilter")) =>
    LET cues == IF call.fn = "writeAssFile" THEN result.value.events
                ELSE result.value
    IN /\ \A i \in 1..(Len(cues) - 1) :
            cues[i].startTime <= cues[i + 1].startTime
       /\ \A i \in 1..Len(call.captions) :
            Cardinality({k \in 1..Len(cues) : cues[k].index = i})
              = IF Showable(call.captions[i]) THEN 1 ELSE 0
       /\ \A k \in 1..Len(cues) :
            /\ cues[k].index \in 1..Len(call.captions)
            /\ cues[k].text = call.captions[cues[k].index].text
            /\ cues[k].startTime = call.captions[cues[k].index].startTime
            /\ cues[k].endTime = call.captions[cues[k].index].endTime

\* the bytes of a subtitle colour as two hexadecimal digits each
Byte(n) == PadStart2(ToString16(n))

SubtitleColor(alpha, blue, green, red) ==
  <<"&", "H">> \o Byte(alpha) \o Byte(blue) \o Byte(green) \o Byte(red)
    \o <<"&">>

OpaqueWhite == SubtitleColor(0, 255, 255, 255)

\* the colour is "#" and n hexadecimal digits
IsHex(hex, n) ==
  /\ Len(hex) = n + 1
  /\ hex[1] = "#"
  /\ \A i \in 2..(n + 1) : hex[i] \in HexDigits

\* the alphas of Alphas that are numbers, in tenths
AlphaTenths == { <<<<"0">>, 0>>, <<<<"1">>, 10>>, <<<<"0", ".", "5">>, 5>>,
                 <<<<"0", ".", "8">>, 8>> }

\* hex is rgba(r,g,b,a) with the alpha t[1]
IsRgba(hex, r, g, b, t) ==
  \E lead \in Blanks, gap \in Blanks : hex = RgbaText(lead, r, g, b, t[1], gap)

\* round(255 * (1 - a)) for a in tenths; a half may round either way
InvertedAlpha(tenths) ==
  { (255 * (10 - tenths)) \div 10, (255 * (10 - tenths) + 9) \div 10 }

\* C21: #RGB and #RRGGBB convert to alpha 00, blue, green, red; rgba(r,g,b,a)
\* to alpha round(255 * (1 - a)), blue, green, red; every other colour to
\* opaque white
C21_ColorConversion ==
  Returned("hexToAssColor") =>
    LET hex == call.hex
        V(i) == HexValue(hex[i])
    IN /\ IsHex(hex, 3) =>
            result.value = SubtitleColor(0, 17 * V(4), 17 * V(3), 17 * V(2))
       /\ IsHex(hex, 6) =>
            result.value = SubtitleColor(0, 16 * V(6) + V(7),
                                         16 * V(4) + V(5), 16 * V(2) + V(3))
       /\ \A r \in Channels, g \in Channels, b \in Channels, t \in AlphaTenths :
            IsRgba(hex, r, g, b, t) =>
              \E alpha \in InvertedAlpha(t[2]) :
                result.value = SubtitleColor(alpha, DigitsValue(b, 10),
                                             DigitsValue(g, 10),
                                             DigitsValue(r, 10))
       /\ (/\ ~IsHex(hex, 3)
           /\ ~IsHex(hex, 6)
           /\ ~\E r \in Channels, g \in Channels, b \in Channels,
                 t \in AlphaTenths : IsRgba(hex, r, g, b, t))
            => result.value = OpaqueWhite

\* the fields of a timestamp H:MM:SS.cc, read from its end
StampFields(stamp) ==
  LET n == Len(stamp)
  IN [hours |-> DigitsValue(SubSeq(stamp, 1, n - 9), 10),
      minutes |-> DigitsValue(SubSeq(stamp, n - 7, n - 6), 10),
      seconds |-> DigitsValue(SubSeq(stamp, n - 4, n - 3), 10),
      centis |-> DigitsValue(SubSeq(stamp, n - 1, n), 10)]

\* the layout H:MM:SS.cc
IsStamp(stamp) ==
  LET n == Len(stamp)
  IN /\ n >= 10
     /\ stamp[n - 2] = "." /\ stamp[n - 5] = ":" /\ stamp[n - 8] = ":"
     /\ \A i \in (1..n) \ {n - 2, n - 5, n - 8} : stamp[i] \in Digits

\* the time a timestamp stands for, in centiseconds
StampCentis(stamp) ==
  LET f == StampFields(stamp)
  IN ((f.hours * 60 + f.minutes) * 60 + f.seconds) * 100 + f.centis

\* C23: the timestamp is H:MM:SS.cc of the time rounded to centiseconds; a
\* negative time gives 0:00:00.00; minutes are within 00-59 and seconds
\* within 00.00-59.99; a later time never gives an earlier timestamp
C23_TimestampFormat ==
  Returned("secondsToAssTime") =>
    LET stamp == result.value
    IN /\ IsStamp(stamp)
       /\ StampCentis(stamp) = (Max(0, call.sec) + 5) \div 10
       /\ call.sec < 0 =>
            stamp = <<"0", ":", "0", "0", ":", "0", "0", ".", "0", "0">>
       /\ StampFields(stamp).minutes <= 59
       /\ StampFields(stamp).seconds <= 59
       /\ \A earlier \in AssTimes :
            earlier <= call.sec =>
              StampCentis(secondsToAssTime(earlier)) <= StampCentis(stamp)

\* what a character of a caption text is shown as
Substitute(c) ==
  IF c = "{" THEN <<"(">>
  ELSE IF c = "}" THEN <<")">>
  ELSE IF c = "\n" THEN <<"\\", "N">>
  ELSE <<c>>

\* the substitutes of the characters of text, in order
RECURSIVE Substituted(_)
Substituted(text) ==
  IF text = <<>> THEN <<>>
  ELSE Substitute(Head(text)) \o Substituted(Tail(text))

\* C27: the escaped text holds no '{' and no '}'; each brace is replaced by
\* its substitute and each newline by the line-break marker, every other
\* character is kept, in order
Escaped(shown, text) ==
  /\ \A i \in 1..Len(shown) : shown[i] \notin {"{", "}", "\n"}
  /\ shown = Substituted(text)

C27_TextEscaped ==
  /\ Returned("escapeAssText") => Escaped(result.value, call.text)
  /\ Returned("writeAssFile") =>
       \A k \in 1..Len(result.value.events) :
         Escaped(result.value.events[k].shown, call.captions[k].text)

C27_Witness ==
  /\ Returned("escapeAssText")
  /\ call.text = <<"{", "a", "\n", "}">>
  /\ result.value = <<"(", "a", "\\", "N", ")">>

\* the text colour and the background colour of a style of either shape
TextColourOf(style) ==
  IF IsFlat(style) THEN style.color ELSE style.typography.fontColor

BackgroundColourOf(style) ==
  IF IsFlat(style) THEN style.backgroundColor ELSE style.background.color

\* two subtitle colours agree in alpha, blue, green and red
SameColour(a, b) == SubSeq(a, 1, 10) = SubSeq(b, 1, 10)

\* C22: the text colour and the background colour the document declares,
\* in its style line and in each cue's directive block, are the conversions
\* of the style's text colour and background colour
C22_DocumentColours ==
  Returned("writeAssFile") =>
    /\ SameColour(result.value.styleLine.primaryColour,
                  hexToAssColor(TextColourOf(call.style)))
    /\ SameColour(result.value.styleLine.backColour,
                  hexToAssColor(BackgroundColourOf(call.style)))
    /\ \A k \in 1..Len(result.value.events) :
         SameColour(result.value.events[k].effect.textColor,
                    hexToAssColor(TextColourOf(call.style)))

\* the position type of a style of either shape
PositionTypeOf(style) ==
  IF IsFlat(style) THEN style.position ELSE style.position.type

\* C24: top gives alignment 8 (top-center), center 5 (middle-center), any
\* other position type 2 (bottom-center), for the flat and for the nested
\* style; each cue is placed below the top margin, at mid-height or above
\* the bottom margin accordingly
C24_AlignmentFollowsPosition ==
  Returned("writeAssFile") =>
    LET type == PositionTypeOf(call.style)
        line == result.value.styleLine
        height == PlayRes(call.resolution).y
    IN /\ line.alignment = IF type = "top" THEN 8
                           ELSE IF type = "center" THEN 5
                           ELSE 2
       /\ \A k \in 1..Len(result.value.events) :
            result.value.events[k].effect.pos[2] =
              IF type = "top" THEN line.marginV + line.fontSize + 20
              ELSE IF type = "center" THEN height \div 2
              ELSE height - line.marginV - line.fontSize - 20

\* C26: for a request naming a preset together with a flat style, the
\* style handed to startBurnIn has the flat style's value in each field the
\* flat style specifies (here fontSize, mapped to typography.fontSize) and
\* the preset's value in every other field
C26_PresetFlatMerge ==
  [][\A req \in Requests :
       (/\ PostBurnIn(req)
        /\ ReachesStartBurnIn(req)
        /\ req.preset \in DOMAIN CAPTION_STYLE_PRESETS
        /\ req.style.present)
         => LET preset == CAPTION_STYLE_PRESETS[req.preset]
                final == FinalStyle(req)
            IN \A g \in Groups :
                 \A f \in DOMAIN preset[g] :
                   final[g][f] =
                     IF g = "typography" /\ f = "fontSize"
                        /\ req.style.fontSize # 0
                       THEN req.style.fontSize
                       ELSE preset[g][f]]_vars

\* the progress values written at fixed points of the pipeline
Milestones == {0, StartProgress, EngineStartProgress, DoneProgress}

\* C25: while the probed duration of a job of the ass build is 0 (or not a
\* number), its progress is one of the milestones 0, 1, 2 and 100, and a
\* line of the engine's stderr changes no record
C25_MilestonesOnly ==
  /\ [](\A j \in JobIds :
          (impl = "ass" /\ Created(j) /\ duration[j] = 0)
            => jobs[j].progress \in Milestones)
  /\ [][\A j \in JobIds, line \in StderrLines :
          (EngineStderr(j, line) /\ duration[j] = 0) => jobs' = jobs]_vars

C25_Witness ==
  \E j \in JobIds :
    /\ impl = "ass"
    /\ duration[j] = 0
    /\ pc[j] = "exited"
    /\ jobs[j].status = "completed"
    /\ jobs[j].progress = DoneProgress

\* the cue's duration and the style's animation times, in twelfths of a
\* millisecond
CueTicks(caption) ==
  (caption.endTime - caption.startTime) * MsPerSecond * TicksPerMs

\* C29: for a cue (endTime > startTime) and a reel, bounce or slide style,
\* every window emitted has 0 <= from <= to <= cue duration, consecutive
\* windows do not overlap, the first reel window is min(animationDuration,
\* cueDuration / 4) long and the slide window min(animationDuration,
\* cueDuration / 3)
C29_AnimationWindows ==
  (/\ Returned("generateAssEffect")
   /\ call.caption.endTime > call.caption.startTime
   /\ call.style.type \in {"reel", "bounce", "slide"}) =>
    LET windows == result.value.windows
        cueDuration == CueTicks(call.caption)
        animationDuration == call.style.animationDuration * TicksPerMs
    IN /\ Len(windows) > 0
       /\ \A i \in 1..Len(windows) :
            /\ 0 <= windows[i].from
            /\ windows[i].from <= windows[i].to
            /\ windows[i].to <= cueDuration
       /\ \A i \in 1..(Len(windows) - 1) :
            windows[i].to <= windows[i + 1].from
       /\ call.style.type = "reel" =>
            4 * (windows[1].to - windows[1].from)
              = Min(4 * animationDuration, cueDuration)
       /\ call.style.type = "slide" =>
            3 * (windows[1].to - windows[1].from)
              = Min(3 * animationDuration, cueDuration)

\* a job id that startBurnIn issued and whose record is no longer in the map
Removed(j) == j <= Len(returned) /\ jobs[j].status = "absent"

\* a step of the pipeline of job j
PipelineStep(j) ==
  \/ \E ok \in BOOLEAN, d \in ProbedDurations : ProbeReport(j, ok, d)
  \/ EngineStart(j)
  \/ \E percent \in Percents : EngineProgress(j, percent)
  \/ EngineEnd(j)
  \/ EngineFail(j)

\* C28: cleanupOldJobs(maxAge) removes exactly the records created more than
\* maxAge ago and leaves every other record unchanged; a removed id stays
\* removed and is answered 404 "Job not found"; a step of the pipeline of a
\* removed job changes no record
C28_ReaperRemovesOld ==
  [][ /\ \A maxAge \in MaxAges :
           CleanupOldJobs(maxAge) =>
             \A j \in JobIds :
               jobs'[j] = IF Created(j) /\ now - createdAt[j] > maxAge
                            THEN NoJob ELSE jobs[j]
      /\ \A j \in JobIds :
           Removed(j) =>
             /\ jobs'[j] = NoJob
             /\ GetStatus(j) =>
                  lastResponse' = ErrorResponse("status", 404, "Job not found", j)
             /\ PipelineStep(j) => jobs' = jobs ]_vars

\* a record was removed while its pipeline was running, and a younger record
\* is still in the map
C28_Witness ==
  \E j, k \in JobIds :
    /\ Removed(j)
    /\ pc[j] \in {"running", "exited"}
    /\ thrown[j] = Undefined
    /\ Created(k)
    /\ createdAt[k] > createdAt[j]

\* C30: per client the export limiter holds at most ExportMaxRequests
\* admissions in a window; at the maximum a request with time <= resetTime
\* is answered 429 and changes nothing; a request with time > resetTime
\* opens a window with count 1; an admitted request adds one to the count of
\* its window; no request changes another client's entry
C30_ExportRateLimit ==
  /\ [](\A c \in ClientIds : requestCounts[c].count <= ExportMaxRequests)
  /\ [][ \A ip \in Ips :
           ExportRateLimiter(ip) =>
             LET c == ClientIdOf(ip)
                 d == requestCounts[c]
                 open == d # NoClientData /\ now <= d.resetTime
             IN /\ (open /\ d.count >= ExportMaxRequests) =>
                     /\ lastResponse' = TooManyExports
                     /\ requestCounts' = requestCounts
                /\ (open /\ d.count < ExportMaxRequests) =>
                     /\ lastResponse' = NoResponse
                     /\ requestCounts'[c] = [d EXCEPT !.count = @ + 1]
                /\ ~open =>
                     /\ lastResponse' = NoResponse
                     /\ requestCounts'[c] =
                          [count |-> 1, resetTime |-> now + ExportWindow]
                /\ \A o \in ClientIds \ {c} :
                     requestCounts'[o] = requestCounts[o] ]_vars

\* a client at the maximum was just refused at its resetTime while another
\* client is inside a window of its own
C30_Witness ==
  /\ lastResponse = TooManyExports
  /\ \E c, o \in ClientIds :
       /\ c # o
       /\ requestCounts[c].count = ExportMaxRequests
       /\ now = requestCounts[c].resetTime
       /\ requestCounts[o] # NoClientData
       /\ requestCounts[o].count < ExportMaxRequests

====
